---- MODULE Spec2Model ----
(***************************************************************************)
(* Model of the fetch engine of spencerkimball/stargazers                  *)
(* (fetch/fetch.go: fetchURL, doFetch, rateLimitError, linkRE) and of the  *)
(* response cache it calls (getCache, putCache, clearEntry).               *)
(*                                                                         *)
(* One top-level call of fetchURL is a run of the actions                  *)
(*   Call -> GetCache -> (Attempt)* -> Check -> Decode -> Return           *)
(* where Decode may recurse into GetCache (the corrupted-entry retry).     *)
(* The remote server, the transport and the file system are the            *)
(* environment: their answers are chosen with \E.                          *)
(***************************************************************************)
EXTENDS Integers, Sequences, FiniteSets, TLC

\* ------------------------------------------------------------------ bounds
\* Deepest corrupted-entry recursion of fetchURL the model follows (the code
\* has no limit of its own).
MaxDepth == 2
\* Longest Link header, in pieces, that the parse is tried on.
MaxLinkLen == 5

\* ------------------------------------------------------- program constants
\* A retry loop that allows one pass too many.
MaxAttempts_Mut == 10 + 1
\* for i := uint(0); i < 10; i++
MaxAttempts == 10
\* backoff := int64((1 << i)) * 50000000 nanoseconds = 50ms << i
BackoffBaseMs == 50
\* if backoff > 1000000000 { backoff = 1000000000 }
BackoffCapMs == 1000
\* Add(1 * time.Second) in rateLimitError.expiration
PaddingMs == 1000

\* ------------------------------------------------------------ input domains
URLs == {"u1"}

\* The clock is read in ms on a scale on which the GET of the current
\* attempt is issued at IssueMs; the X-rateLimit-Reset header (Unix
\* seconds) is given on the same scale.  The code only uses the difference
\* of the two, so nothing is lost by re-basing the scale at each GET.
IssueMs == 2000

\* The Link header as a sequence of lexical pieces.  "LT" is `<`,
\* "NEXT" is `>; rel="next", <`, "LAST" is `>; rel="last"`,
\* "PREV" is `>; rel="prev", <`, "FIRST" is `>; rel="first"`,
\* "SEP" is `, <`; any other piece is a URL (it holds no `<`, `>` or `"`).
NoLink == << >>
LinkNextLast == <<"LT", "p2", "NEXT", "p5", "LAST">>
LinkPrevNextLast == <<"LT", "p1", "PREV", "p3", "NEXT", "p5", "LAST">>
LinkFirstPrev == <<"LT", "p1", "FIRST", "SEP", "p4", "PREV", "p5", "LAST">>
LinkEmptyNext == <<"LT", "NEXT", "p5", "LAST">>
\* The headers the server of the model sends.
Links == {NoLink, LinkNextLast, LinkFirstPrev}
\* The headers given to the parse on its own: every sequence of at most
\* MaxLinkLen of these pieces, and the headers named above.
LinkURLs == {"p2", "p5"}
LinkPieces == {"LT", "NEXT", "LAST", "PREV"} \cup LinkURLs
LinkInputs ==
  UNION {[1..n -> LinkPieces] : n \in 0..MaxLinkLen}
    \cup {LinkNextLast, LinkPrevNextLast, LinkFirstPrev, LinkEmptyNext}

\* Bodies: two JSON documents valid for the destination, one body that is
\* read but is not valid JSON, one body whose read fails.
GoodBodies == {"j1", "j2"}
Bodies == GoodBodies \cup {"badjson", "unreadable"}

RECURSIVE Pow2(_)
Pow2(n) == IF n = 0 THEN 1 ELSE 2 * Pow2(n - 1)

\* ------------------------------------------------------------- responses
\* *http.Response as far as fetchURL looks at it; nil is NoResp.
NoResp == [present |-> FALSE, link |-> NoLink, body |-> "none"]
Response(l, b) == [present |-> TRUE, link |-> l, body |-> b]
Responses == {Response(l, b) : l \in Links, b \in Bodies}

VARIABLES
  cache,      \* response cache: URL -> Response or NoResp
  pc,         \* position of the running fetchURL
  url,        \* fetchURL argument url
  refresh,    \* fetchURL argument refresh
  resp,       \* local resp
  cached,     \* local cached
  next,       \* local next
  i,          \* loop variable of the retry loop
  depth,      \* recursion depth of fetchURL (0 = top-level call)
  now,        \* clock reading (ms) when the latest sleep returned
  value,      \* the caller's destination: "none" or the decoded body
  ret,        \* returned (next, err) of the top-level call
  hist,       \* observations of the running top-level call
  prev,       \* observations of the top-level call before it
  lk,         \* a Link header and what the parse of fetchURL made of it
  trav,       \* a page loop of query.go: its locals and its result
  qa,         \* a run of QueryAll: its position and its data
  an          \* a report of the analysis: its loop and its rows

vars == <<cache, pc, url, refresh, resp, cached, next, i, depth, now, value,
          ret, hist, prev, lk, trav, qa, an>>

\* ------------------------------------------------------------------ errors
\* The error values fetchURL's type switch tells apart.
\* st is the status of the response an httpError carries.
NilErr == [kind |-> "nil", resetUnix |-> 0, st |-> 0]
\* &rateLimitError{resetUnix: ...}
RateLimitErr(t) == [kind |-> "rateLimit", resetUnix |-> t, st |-> 0]
\* Variant: the error does not carry the response.
HttpErr_Mut(st) == [kind |-> "http", resetUnix |-> 0, st |-> 0]

\* &httpError{req, resp}
HttpErr(st) == [kind |-> "http", resetUnix |-> 0, st |-> st]
\* any other error: transport failure, or the 202 error
OtherErr == [kind |-> "other", resetUnix |-> 0, st |-> 0]

\* ------------------------------------------------------ header arithmetic
\* Header values as strings; "" is an absent header.
RemHdrs == {"", "0", "5", "x"}
ResetHdrs == {"", "0", "1", "3", "x"}
Statuses == {200, 201, 202, 204, 403, 404, 500}

\* strconv.Atoi on the header values above: does it succeed, and its result.
AtoiOK(s) == s \in {"0", "1", "3", "5"}
Atoi(s) == CASE s = "0" -> 0 [] s = "1" -> 1 [] s = "3" -> 3 [] s = "5" -> 5 [] OTHER -> 0

\* An expiration without the second of padding.
expiration_Mut(resetUnix, t) == (resetUnix * 1000) - t
\* rateLimitError.expiration at clock reading t (ms): the duration until
\* resetUnix plus one second; negative when that moment is past.
expiration(resetUnix, t) == (resetUnix * 1000 + PaddingMs) - t

\* A backoff that is never capped.
backoff_Mut(k) == Pow2(k) * BackoffBaseMs
\* The backoff of the retry loop's default case for loop index k.
backoff(k) ==
  LET b == Pow2(k) * BackoffBaseMs
  IN  IF b > BackoffCapMs THEN BackoffCapMs ELSE b

\* time.Sleep(d) started at clock reading t: returns at once for d <= 0.
SleepUntil(t, d) == IF d > 0 THEN t + d ELSE t

\* ---------------------------------------------------------------- linkRE
\* ^<(.*)>; rel="next", <(.*)>; rel="last".*   on the pieces of a header.
\* The first group is greedy: it ends at the last "NEXT" piece that still
\* has a "LAST" piece after it.
NextPositions(h) ==
  {k \in 2..Len(h) : h[k] = "NEXT" /\ \E j \in (k + 1)..Len(h) : h[j] = "LAST"}
linkMatches(h) == Len(h) > 0 /\ h[1] = "LT" /\ NextPositions(h) # {}

\* Variant: the second group of the match is taken, the one that ends at
\* the last "LAST" piece.
linkGroup1_Mut(h) ==
  LET k == CHOOSE m \in NextPositions(h) : \A n \in NextPositions(h) : n <= m
      j == CHOOSE m \in (k + 1)..Len(h) :
             h[m] = "LAST" /\ \A n \in (m + 1)..Len(h) : h[n] # "LAST"
  IN  SubSeq(h, k + 1, j - 1)

\* urls[1] of FindStringSubmatch
linkGroup1(h) ==
  LET k == CHOOSE m \in NextPositions(h) : \A n \in NextPositions(h) : n <= m
  IN  SubSeq(h, 2, k - 1)

\* A parse that finds the match and does not assign it.
parseNext_Mut(r, cur) == cur
\* fetch.go 130-136: the next link of a response, given the current next.
parseNext(r, cur) ==
  IF Len(r.link) > 0 /\ linkMatches(r.link) THEN linkGroup1(r.link) ELSE cur

\* ------------------------------------------------------------ the cache
\* getCache: the entry stored for the request, nil when there is none.
getCache(c, u) == c[u]
\* putCache: stores the response for the request, replacing any entry.
putCache(c, u, r) == [c EXCEPT ![u] = r]
\* clearEntry: removes the entry of the request.
clearEntry(c, u) == [c EXCEPT ![u] = NoResp]
\* Clear: removes every cached response of the repository.
Clear(c) == [u \in DOMAIN c |-> NoResp]

\* ---------------------------------------------------------------- doFetch
\* Variant: a failed putCache removes the entry that was there.
onOK_Clears(c, u, r, putOK) ==
  IF putOK THEN [resp |-> r, err |-> NilErr, cache |-> putCache(c, u, r)]
  ELSE [resp |-> NoResp, err |-> NilErr, cache |-> clearEntry(c, u)]

\* Variant: the response is handed back whether or not putCache succeeds.
onOK_Mut(c, u, r, putOK) ==
  [resp |-> r, err |-> NilErr, cache |-> IF putOK THEN putCache(c, u, r) ELSE c]

\* fetch.go 173-177 and 198-199: status 200.  The response is handed back
\* when putCache succeeds.  When it fails, its error lives in the scope of
\* the if statement only: the function leaves the switch, closes the body
\* and returns nil with the nil err of client.Do.
onOK(c, u, r, putOK) ==
  IF putOK THEN [resp |-> r, err |-> NilErr, cache |-> putCache(c, u, r)]
  ELSE [resp |-> NoResp, err |-> NilErr, cache |-> c]

\* Variant: every 2xx status but 202 is taken as the success.
isOK_Mut(st) == st \in 200..299 /\ st # 202

\* fetch.go 173: case 200.
isOK(st) == st = 200

\* Variant: no case for 202, which then falls to the httpError.
isAccepted_Mut(st) == FALSE

\* fetch.go 178: case 202.
isAccepted(st) == st = 202

\* Variant: the remaining quota must differ from 0.
isRateLimit403_Mut(rem, reset) ==
  /\ Len(rem) > 0 /\ AtoiOK(rem) /\ Atoi(rem) # 0
  /\ Len(reset) > 0 /\ AtoiOK(reset)

\* fetch.go 182-186: a 403 is a rate limit when X-rateLimit-Remaining is
\* there and parses to 0 and X-rateLimit-Reset is there and parses.
isRateLimit403(rem, reset) ==
  /\ Len(rem) > 0 /\ AtoiOK(rem) /\ Atoi(rem) = 0
  /\ Len(reset) > 0 /\ AtoiOK(reset)

\* One GET.  transportOK: did http.DefaultClient.Do return a response;
\* st, rem, reset, l, b: its status, X-rateLimit-Remaining,
\* X-rateLimit-Reset, Link and body; putOK: does putCache succeed.
\* Result: the returned (resp, err) and the cache afterwards.
doFetch(c, u, transportOK, st, rem, reset, l, b, putOK) ==
  IF ~transportOK THEN [resp |-> NoResp, err |-> OtherErr, cache |-> c]
  ELSE IF isOK(st) THEN onOK(c, u, Response(l, b), putOK)
  ELSE IF isAccepted(st) THEN [resp |-> NoResp, err |-> OtherErr, cache |-> c]
  ELSE IF st = 403 /\ isRateLimit403(rem, reset)
    THEN [resp |-> NoResp, err |-> RateLimitErr(Atoi(reset)), cache |-> c]
  ELSE [resp |-> NoResp, err |-> HttpErr(st), cache |-> c]

\* ------------------------------------------------------------ observations
\* The parts of an error message: the operation and the URL it names.
NoMsg == [op |-> "", url |-> ""]
\* Variant: the message names the operation only.
getCacheError_Mut(u) == [op |-> "getCache", url |-> ""]
\* fetch.go 89: errors.New(fmt.Sprintf("getCache URL=%q: %s", url, err))
getCacheError(u) == [op |-> "getCache", url |-> u]

\* What the running top-level call has done so far (not program state).
NoAnswer == [st |-> 0, rem |-> "", reset |-> ""]
Hist0 == [attempts |-> 0,        \* doFetch calls of the top-level call
          attemptsInv |-> 0,     \* doFetch calls of the current invocation
          transOnly |-> TRUE,    \* every attempt of the invocation so far
                                 \* ended in the default case of the switch
          lastKind |-> "none",   \* error kind of the latest attempt
          lastBackoff |-> 0,     \* duration of the latest backoff sleep
          ans |-> NoAnswer,      \* status of the latest answer (0: none) and
                                 \* its quota headers when it was a 403
          errSt |-> 0,           \* status carried by the latest httpError
          resetUnix |-> 0,       \* resetUnix of the latest rateLimitError
          putFailed |-> FALSE,   \* did putCache fail in the latest attempt
          slept |-> FALSE,       \* did the latest attempt call time.Sleep
          wrote |-> FALSE,       \* did the call write the cache entry
          cleared |-> 0,         \* clearEntry calls of the top-level call
          readErr |-> FALSE,     \* did getCache fail
          errMsg |-> NoMsg,      \* what the error of fetchURL names
          hit |-> FALSE,         \* did the top-level getCache find an entry
          hitLink |-> NoLink,    \* the Link header of the entry it found
          refetched |-> FALSE,   \* was a cached last page discarded
          from |-> "none"]       \* where the decoded body came from

NoRet == [next |-> << >>, err |-> "pending"]

\* fetch.go 105-113: the cases of the type switch on doFetch's error.
isRateLimit(err) == err.kind = "rateLimit"
\* A type switch without the *httpError case: the default case takes it.
isPermanent_Mut(err) == FALSE
isPermanent(err) == err.kind = "http"
\* fetch.go 113: return "", nil
permanentRet == [next |-> << >>, err |-> "nil"]
\* Giving up reported as an error.
exhaustedRet_Mut == [next |-> << >>, err |-> "fetch"]
\* fetch.go 125-127: no response after the retry loop: return "", nil
exhaustedRet == [next |-> << >>, err |-> "nil"]
\* A break condition that ignores the next link.
mustRefetch_NoNext(n, isCached, doRefresh) == isCached /\ doRefresh
\* A break condition that ignores the refresh argument.
mustRefetch_NoRefresh(n, isCached, doRefresh) == Len(n) = 0 /\ isCached
\* A loop that is always left after its first pass.
mustRefetch_Never(n, isCached, doRefresh) == FALSE
\* fetch.go 139: the negation of the break condition: a page taken from the
\* cache that has no next link is fetched again when refresh is set.
mustRefetch(n, isCached, doRefresh) == ~(Len(n) > 0 \/ ~isCached \/ ~doRefresh)
\* fetch.go 149-150: ioutil.ReadAll fails on the body.
readFails(b) == b = "unreadable"
\* fetch.go 157: json.Unmarshal fails on the bytes read.
unmarshalFails(b) == b = "badjson"

\* What is remembered of a finished top-level call.
NoPrev == [valid |-> FALSE, entry0 |-> NoResp, readErr |-> FALSE,
           ret |-> NoRet, value |-> "none"]

\* -------------------------------------------------------------------- Init
Caches == [URLs -> Responses \cup {NoResp}]

\* No Link header under parse, no page loop and no QueryAll running.
NoParse == [h |-> << >>, parsed |-> FALSE, next |-> << >>]
NoLoop == [fn |-> "none", st |-> "idle"]
NoRun == [phase |-> "none"]
NoReport == [fn |-> "none"]

\* fetchURL is not running.
EngineInit ==
  /\ pc = "idle"
  /\ url = "u1"
  /\ refresh = FALSE
  /\ resp = NoResp
  /\ cached = FALSE
  /\ next = << >>
  /\ i = 0
  /\ depth = 0
  /\ now = IssueMs
  /\ value = "none"
  /\ ret = NoRet
  /\ hist = Hist0
  /\ prev = NoPrev

Init ==
  /\ cache \in Caches
  /\ EngineInit
  /\ lk = NoParse
  /\ trav = NoLoop
  /\ qa = NoRun
  /\ an = NoReport

\* ----------------------------------------------------------------- actions
\* The entry into fetchURL(c, u, &value, r): fresh locals and a fresh
\* destination.
Enter(u, r) ==
  /\ pc' = "getCache"
  /\ url' = u
  /\ refresh' = r
  /\ depth' = 0
  /\ now' = IssueMs
  /\ value' = "none"
  /\ ret' = NoRet
  /\ hist' = Hist0
  /\ resp' = NoResp
  /\ cached' = FALSE
  /\ next' = << >>
  /\ i' = 0
  /\ UNCHANGED cache

\* A caller calls fetchURL(c, u, &value, r).
Call(u, r) ==
  /\ pc \in {"idle", "done"}
  /\ Enter(u, r)
  /\ UNCHANGED <<prev, lk, trav, qa, an>>

\* A caller calls fetchURL with refresh = false for a request that is in
\* the cache.
CallFirst(u) ==
  /\ pc = "idle"
  /\ cache[u] # NoResp
  /\ Enter(u, FALSE)
  /\ prev' = [NoPrev EXCEPT !.entry0 = cache[u]]
  /\ UNCHANGED <<lk, trav, qa, an>>

\* The same call again, right after the first one returned.
CallAgain ==
  /\ pc = "done"
  /\ ~prev.valid
  /\ Enter(url, FALSE)
  /\ prev' = [valid |-> TRUE, entry0 |-> prev.entry0, readErr |-> hist.readErr,
              ret |-> ret, value |-> value]
  /\ UNCHANGED <<lk, trav, qa, an>>

\* fetch.go 83-98: the cache lookup, then the head of the for loop.
GetCache(ioOK) ==
  /\ pc = "getCache"
  /\ LET h == [hist EXCEPT !.attemptsInv = 0, !.transOnly = TRUE,
                           !.lastKind = "none", !.lastBackoff = 0,
                           !.ans = NoAnswer, !.slept = FALSE,
                           !.errSt = 0, !.resetUnix = 0, !.putFailed = FALSE]
     IN
       /\ next' = << >>
       /\ i' = 0
       /\ IF ~ioOK
            THEN \* return "", errors.New("getCache URL=...")
                 /\ resp' = NoResp
                 /\ cached' = TRUE
                 /\ ret' = [next |-> << >>, err |-> "getCache"]
                 /\ pc' = "done"
                 /\ hist' = [h EXCEPT !.readErr = TRUE,
                                      !.errMsg = getCacheError(url)]
            ELSE /\ resp' = getCache(cache, url)
                 /\ cached' = (resp' # NoResp)
                 /\ pc' = IF resp' = NoResp THEN "attempt" ELSE "check"
                 /\ hist' = [h EXCEPT !.hit = IF depth = 0 THEN resp' # NoResp
                                              ELSE @,
                                      !.hitLink = IF depth = 0 THEN resp'.link
                                                  ELSE @]
                 /\ UNCHANGED ret
  /\ UNCHANGED <<cache, url, refresh, depth, now, value, prev, lk, trav, qa, an>>

\* fetch.go 100-123: one pass of the retry loop: doFetch, then the type
\* switch on its error with the sleep it asks for.
Attempt(transportOK, st, rem, reset, l, b, putOK) ==
  /\ pc = "attempt"
  /\ i < MaxAttempts
  /\ (b = "unreadable" => depth < MaxDepth)
  /\ LET r == doFetch(cache, url, transportOK, st, rem, reset, l, b, putOK)
         k == r.err.kind
         h == [hist EXCEPT !.attempts = @ + 1, !.attemptsInv = @ + 1,
                           !.transOnly = @ /\ k = "other", !.lastKind = k,
                           !.lastBackoff = IF k = "other" THEN backoff(i) ELSE 0,
                           !.ans = IF transportOK
                                     THEN [st |-> st, rem |-> rem, reset |-> reset]
                                     ELSE NoAnswer,
                           !.errSt = r.err.st, !.resetUnix = r.err.resetUnix,
                           !.putFailed = transportOK /\ st = 200 /\ ~putOK,
                           !.slept = k # "nil" /\ ~isPermanent(r.err),
                           !.wrote = @ \/ r.resp # NoResp]
     IN
       /\ cache' = r.cache
       /\ resp' = r.resp
       /\ hist' = h
       /\ IF r.err = NilErr THEN
            \* break
            /\ pc' = "check"
            /\ now' = IssueMs
            /\ UNCHANGED <<i, ret>>
          ELSE IF isRateLimit(r.err) THEN
            \* time.Sleep(t.expiration())
            /\ now' = SleepUntil(IssueMs, expiration(r.err.resetUnix, IssueMs))
            /\ i' = i + 1
            /\ pc' = IF i + 1 < MaxAttempts THEN "attempt" ELSE "check"
            /\ UNCHANGED ret
          ELSE IF isPermanent(r.err) THEN
            /\ pc' = "done"
            /\ ret' = permanentRet
            /\ now' = IssueMs
            /\ UNCHANGED i
          ELSE
            \* time.Sleep(time.Duration(backoff))
            /\ now' = SleepUntil(IssueMs, backoff(i))
            /\ i' = i + 1
            /\ pc' = IF i + 1 < MaxAttempts THEN "attempt" ELSE "check"
            /\ UNCHANGED ret
  /\ UNCHANGED <<url, refresh, cached, next, depth, value, prev, lk, trav, qa, an>>

\* fetch.go 125-144: after the retry loop: give up without a response, or
\* parse the next link and either leave the for loop or drop a cached last
\* page and fetch it again.
Check ==
  /\ pc = "check"
  /\ IF resp = NoResp
       THEN /\ ret' = exhaustedRet
            /\ pc' = "done"
            /\ UNCHANGED <<resp, cached, next, i, hist>>
       ELSE LET n == parseNext(resp, next)
            IN  /\ next' = n
                /\ IF ~mustRefetch(n, cached, refresh)
                     THEN /\ pc' = "decode"
                          /\ UNCHANGED <<resp, cached, i, hist>>
                     ELSE /\ resp' = NoResp
                          /\ cached' = FALSE
                          /\ i' = 0
                          /\ pc' = "attempt"
                          /\ hist' = [hist EXCEPT !.refetched = TRUE]
                /\ UNCHANGED ret
  /\ UNCHANGED <<cache, url, refresh, depth, now, value, prev, lk, trav, qa, an>>

\* fetch.go 146-160: read the body and unmarshal it.  A failed read clears
\* the cache entry and calls fetchURL again with the same arguments.
Decode ==
  /\ pc = "decode"
  /\ IF readFails(resp.body) THEN
       \* clearEntry(c, url); return fetchURL(c, url, value, refresh)
       /\ cache' = clearEntry(cache, url)
       /\ depth' = depth + 1
       /\ pc' = "getCache"
       /\ hist' = [hist EXCEPT !.cleared = @ + 1]
       /\ UNCHANGED <<value, ret>>
     ELSE IF unmarshalFails(resp.body) THEN
       /\ ret' = [next |-> << >>, err |-> "unmarshal"]
       /\ pc' = "done"
       /\ UNCHANGED <<cache, depth, value, hist>>
     ELSE
       /\ value' = resp.body
       /\ ret' = [next |-> next, err |-> "nil"]
       /\ pc' = "done"
       /\ hist' = [hist EXCEPT !.from = IF cached THEN "cache" ELSE "net"]
       /\ UNCHANGED <<cache, depth>>
  /\ UNCHANGED <<url, refresh, resp, cached, next, i, now, prev, lk, trav, qa, an>>

\* part_004 40-54: the clear command, a run of the program of its own
\* between two fetches: none of the locals of an earlier fetchURL is left,
\* only the cache on disk.  how = "norepo": no repository was given and
\* the command returns an error before it touches the cache; "ok":
\* fetch.Clear removed every entry; "fail": fetch.Clear returned an error,
\* which is logged, and may have removed any of the entries.
RunClear(how) ==
  /\ pc \in {"idle", "done"}
  /\ IF how = "norepo" THEN cache' = cache
     ELSE IF how = "ok" THEN cache' = Clear(cache)
     ELSE cache' \in {c \in Caches :
                        \A u \in URLs : c[u] \in {cache[u], NoResp}}
  /\ pc' = "idle"
  /\ url' = "u1"
  /\ refresh' = FALSE
  /\ resp' = NoResp
  /\ cached' = FALSE
  /\ next' = << >>
  /\ i' = 0
  /\ depth' = 0
  /\ now' = IssueMs
  /\ value' = "none"
  /\ ret' = NoRet
  /\ hist' = Hist0
  /\ prev' = NoPrev
  /\ UNCHANGED <<lk, trav, qa, an>>

CallStep == \E u \in URLs, r \in BOOLEAN : Call(u, r)
RunClearStep == \E how \in {"norepo", "ok", "fail"} : RunClear(how)
GetCacheStep == \E ioOK \in BOOLEAN : GetCache(ioOK)
\* The answers the environment can give to one GET.  Parts of an answer the
\* code never looks at on that path are fixed.
AttemptStep ==
  \/ Attempt(FALSE, 200, "", "", NoLink, "j1", TRUE)
  \/ \E l \in Links, b \in Bodies, putOK \in BOOLEAN :
        Attempt(TRUE, 200, "", "", l, b, putOK)
  \/ \E rem \in RemHdrs, reset \in ResetHdrs :
        Attempt(TRUE, 403, rem, reset, NoLink, "j1", TRUE)
  \/ \E st \in Statuses \ {200, 403} :
        Attempt(TRUE, st, "", "", NoLink, "j1", TRUE)

Next ==
  CallStep \/ GetCacheStep \/ AttemptStep \/ Check \/ Decode \/ RunClearStep

Spec == Init /\ [][Next]_vars

\* Two calls in a row for one cached request, refresh = false both times.
InitTwice == Init
NextTwice ==
  \/ \E u \in URLs : CallFirst(u)
  \/ CallAgain
  \/ GetCacheStep \/ AttemptStep \/ Check \/ Decode \/ RunClearStep
SpecTwice == InitTwice /\ [][NextTwice]_vars

\* ------------------------------------------------------ the parse alone
\* fetch.go 130-136 applied to the Link header of a response, with next
\* still empty as it is when the code gets there.
ParseLink ==
  /\ ~lk.parsed
  /\ lk' = [lk EXCEPT !.parsed = TRUE,
                      !.next = parseNext(Response(lk.h, "j1"), << >>)]
  /\ UNCHANGED <<cache, pc, url, refresh, resp, cached, next, i, depth, now,
                 value, ret, hist, prev, trav, qa, an>>

InitLink ==
  /\ cache = [u \in URLs |-> NoResp]
  /\ EngineInit
  /\ lk \in {[NoParse EXCEPT !.h = h] : h \in LinkInputs}
  /\ trav = NoLoop
  /\ qa = NoRun
  /\ an = NoReport
NextLink == ParseLink
SpecLink == InitLink /\ [][NextLink]_vars

\* ------------------------------------------------------------ page loops
\* A collection of the server: a chain of pages.  Pages[1..n] are the URLs
\* of a collection of n pages; every page but the last names the next one
\* and the last one in its Link header.
Pages == <<"p1", "p2", "p5">>
PageURLs == {Pages[k] : k \in 1..Len(Pages)}
PageNo(u) == CHOOSE k \in 1..Len(Pages) : Pages[k] = u
PageLink(n, k) ==
  IF k < n THEN <<"LT", Pages[k + 1], "NEXT", Pages[n], "LAST">>
  ELSE IF n = 1 THEN NoLink ELSE LinkFirstPrev
\* The body of each page and the items json.Unmarshal makes of it.
PageBody == [p1 |-> "j1", p2 |-> "j2", p5 |-> "j5"]
Decoded == [j1 |-> <<"a", "b">>, j2 |-> <<"c">>, j5 |-> <<"d", "e">>]
PageResponse(n, u) == Response(PageLink(n, PageNo(u)), PageBody[u])
\* The logins of the stargazers, as QueryContributions hands them to
\* QueryStatistics.
Authors == {"a", "c", "d"}

\* The three functions of query.go that run the page loop.
LoopFns == {"QueryStargazers", "QueryFollowers", "QueryStatistics"}
\* Variant: every call site asks for the refresh of the last page.
refreshOf_Mut(fn) == TRUE
\* query.go 264, 280, 299, 328, 359, 434: the refresh argument each
\* function passes to fetchURL.
refreshOf(fn) == fn = "QueryStargazers"

\* The slice the loop hands to fetchURL, after the call: empty when nothing
\* was decoded into it.
fetchedOf(v) == IF v = "none" THEN << >> ELSE Decoded[v]
\* The URL held by a cursor of one piece.
cursorURL(n) == IF Len(n) = 0 THEN "" ELSE n[1]

\* Variant: the slice is replaced by the page.
appendPage_Mut(acc, fetched) == fetched
\* query.go 270 and 308: append(stargazers, fetched...).
appendPage(acc, fetched) == acc \o fetched

\* query.go 437-441: the contributors whose login is among the authors go
\* into r.Statistics, a map keyed by login.
storeStats(stats, fetched) ==
  stats \cup {fetched[k] : k \in {m \in 1..Len(fetched) : fetched[m] \in Authors}}

\* query.go 261-263, 296-298, 430-433: the loop is entered with the first
\* URL of the collection and nothing accumulated.
LoopStart(fn, n) ==
  [fn |-> fn, n |-> n, st |-> "loop", url |-> Pages[1], acc |-> << >>,
   stats |-> {}, err |-> "pending", okPages |-> 0, soft |-> 0]

\* query.go 262-264, 297-299, 432-434: the loop condition holds and
\* fetchURL is called with a fresh slice.
LoopFetch ==
  /\ trav.st = "loop"
  /\ trav.url # ""
  /\ pc \in {"idle", "done"}
  /\ Enter(trav.url, refreshOf(trav.fn))
  /\ trav' = [trav EXCEPT !.st = "call"]
  /\ UNCHANGED <<prev, lk, qa, an>>

\* Variant: the caller goes on without waiting for fetchURL to return.
hasReturned_Mut(p) == TRUE
\* query.go 264, 299, 434: fetchURL is an ordinary call: the statement
\* after it runs when fetchURL has returned, sleeps included.
hasReturned(p) == p = "done"

\* query.go 265-270, 300-308, 435-442: fetchURL has returned: an error ends
\* the function, otherwise the page is taken in and url is the cursor.
LoopReturn ==
  /\ trav.st = "call"
  /\ hasReturned(pc)
  /\ IF ret.err # "nil"
       THEN trav' = [trav EXCEPT !.st = "returned", !.err = ret.err,
                                 !.acc = IF trav.fn = "QueryStargazers"
                                           THEN << >> ELSE @]
       ELSE trav' = [trav EXCEPT
                       !.st = "loop",
                       !.url = cursorURL(ret.next),
                       !.acc = IF trav.fn = "QueryStatistics" THEN @
                               ELSE appendPage(@, fetchedOf(value)),
                       !.stats = IF trav.fn = "QueryStatistics"
                                   THEN storeStats(@, fetchedOf(value)) ELSE @,
                       !.okPages = IF value # "none" THEN @ + 1 ELSE @,
                       !.soft = IF value = "none" THEN @ + 1 ELSE @]
  /\ UNCHANGED <<cache, pc, url, refresh, resp, cached, next, i, depth, now,
                 value, ret, hist, prev, lk, qa, an>>

\* query.go 262, 297, 432: url is empty: the loop is left.
LoopExit ==
  /\ trav.st = "loop"
  /\ trav.url = ""
  /\ trav' = [trav EXCEPT !.st = "returned", !.err = "nil"]
  /\ UNCHANGED <<cache, pc, url, refresh, resp, cached, next, i, depth, now,
                 value, ret, hist, prev, lk, qa, an>>

\* The answers of the server of the collection to one GET of a page: no
\* answer, the page (whose body may fail to be read), a rate limit, a 404.
PageAttemptStep ==
  \/ Attempt(FALSE, 200, "", "", NoLink, "j1", TRUE)
  \/ \E putOK \in BOOLEAN :
        Attempt(TRUE, 200, "", "", PageLink(trav.n, PageNo(url)),
                PageBody[url], putOK)
  \/ Attempt(TRUE, 200, "", "", PageLink(trav.n, PageNo(url)), "unreadable",
             TRUE)
  \/ Attempt(TRUE, 403, "0", "3", NoLink, "j1", TRUE)
  \/ Attempt(TRUE, 404, "", "", NoLink, "j1", TRUE)

\* The cache holds, for each page of the collection, nothing or the page as
\* the server has it.
PageCaches(n) ==
  {c \in [PageURLs -> {NoResp} \cup {PageResponse(n, u) : u \in PageURLs}] :
     \A u \in PageURLs :
       c[u] # NoResp => (PageNo(u) <= n /\ c[u] = PageResponse(n, u))}

InitPages ==
  /\ EngineInit
  /\ lk = NoParse
  /\ qa = NoRun
  /\ an = NoReport
  /\ \E fn \in LoopFns, n \in 1..Len(Pages) :
        /\ trav = LoopStart(fn, n)
        /\ cache \in PageCaches(n)
NextPages ==
  \/ LoopFetch \/ LoopReturn \/ LoopExit
  \/ GetCacheStep \/ PageAttemptStep \/ Check \/ Decode
SpecPages == InitPages /\ [][NextPages]_vars

\* ---------------------------------------------------------------- QueryAll
\* The run of QueryAll over a small GitHub.  fetchURL is taken by its
\* outcome: "ok" (a page was decoded into the caller's slice and the cursor
\* returned), "soft" (fetchURL gave up: empty cursor, nil error, the slice
\* untouched), "hard" (a non-nil error).
Outcomes == {"ok", "soft", "hard"}
\* The pages the server has: of the stargazers of the repository, and of
\* the followers, starred and subscribed repositories of each stargazer,
\* and of the contributors of each repository.
Names == {"s1", "s2"}
Repos == {"r1", "r2"}
SgPages == <<<<"s1">>, <<"s2">>>>
FollowerPages == [s1 |-> <<<<"f1">>, <<"f2">>>>, s2 |-> <<<<"f3">>>>]
StarredPages == [s1 |-> <<<<"r1">>>>, s2 |-> <<<<"r2">>>>]
SubscribedPages == [s1 |-> <<<<"r1">>>>, s2 |-> <<<<"r1", "r2">>>>]
StatsPages == [r1 |-> <<<<"s1", "x">>>>, r2 |-> <<<<"s2">>>>]
\* query.go 164-166: the repositories for which meetsThresholds holds.
Qualifying == {"r1"}
\* query.go 35-38
maxStarred == 300
maxSubscribed == 300

\* Variant: a fetch that gave up is reported as an error.
fetchErr_Mut(o) == IF o = "ok" THEN "nil" ELSE "fetch"
\* fetch.go 110-113, 125-128: giving up returns a nil error; only the hard
\* failures return one.
fetchErr(o) == IF o = "hard" THEN "fetch" ELSE "nil"

\* What the caller of fetchURL has after the call for page p of pages: the
\* cursor (0: empty), the decoded items, the error.
fetchPage(o, pages, p) ==
  [next |-> IF o = "ok" /\ p < Len(pages) THEN p + 1 ELSE 0,
   items |-> IF o = "ok" THEN pages[p] ELSE << >>,
   err |-> fetchErr(o)]

\* The Context the command hands to QueryAll, as far as fetchURL reads it
\* for the Accept header: acceptHeader is not set.
Ctx0 == [acceptHeader |-> ""]
\* query.go 256
StarAccept == "application/vnd.github.v3.star+json"
\* query.go 255-256: the Context QueryStargazers fetches with.
withAccept(c) == [c EXCEPT !.acceptHeader = StarAccept]
\* Variant: cCopy is the caller's Context itself.
callerCtx_Mut(c, cCopy) == cCopy
\* query.go 255: cCopy := *c copies the struct: the caller's Context is c
\* as it was, whatever is assigned to cCopy.
callerCtx(c, cCopy) == c

\* query.go 219-221, 255-261: QueryAll has called QueryStargazers, which
\* has made its copy of the Context and is at the head of its loop with the
\* URL of the listing.
RunStart ==
  [phase |-> "QueryStargazers", sg |-> << >>, k |-> 0, page |-> 1, j |-> 0,
   repo |-> "", info |-> {},
   followers |-> [s \in Names |-> << >>],
   starred |-> [s \in Names |-> << >>],
   subscribed |-> [s \in Names |-> << >>],
   rs |-> {}, statsDone |-> {}, stats |-> [r \in Repos |-> {}],
   statsCalls |-> [r \in Repos |-> 0],
   rsVal |-> [r \in Repos |-> <<>>],
   cmd |-> "RunFetch", fetchLogged |-> FALSE, fetchRet |-> "pending",
   analysis |-> "none", result |-> "pending",
   contribs |-> {}, err |-> "pending", saved |-> FALSE,
   calls |-> 0, soft |-> 0, hard |-> FALSE, hardAt |-> 0,
   visited |-> <<"QueryStargazers">>, asked |-> {},
   ctx |-> callerCtx(Ctx0, withAccept(Ctx0)), sent |-> {}]

\* Bookkeeping of one fetchURL call made for what (a function of query.go
\* and a stargazer or a repository): its count, its outcome, and the Accept
\* header ("": none, fetch.go 79-81) and refresh argument it is made with.
\* QueryStargazers passes its copy of the Context, the others the caller's.
called(q, o, what) ==
  [q EXCEPT !.calls = @ + 1,
            !.soft = IF o = "soft" THEN @ + 1 ELSE @,
            !.hard = @ \/ o = "hard",
            !.hardAt = IF o = "hard" /\ ~q.hard THEN q.calls + 1 ELSE @,
            !.asked = @ \cup {what},
            !.sent = @ \cup
              {[fn |-> what[1],
                accept |-> IF what[1] = "QueryStargazers"
                             THEN withAccept(q.ctx).acceptHeader
                             ELSE q.ctx.acceptHeader,
                refresh |-> refreshOf(what[1])]}]
\* Variant: the error of fetchURL is dropped and the function goes on.
failed_Mut(q) == q
\* `return err` all the way out of QueryAll.
failed(q) == [q EXCEPT !.phase = "returned", !.err = "fetch"]
\* The next function of QueryAll is called and is at the head of its loop
\* over the stargazers.
entered(q, ph) ==
  [q EXCEPT !.phase = ph, !.visited = Append(@, ph), !.k = 1, !.j = 1,
            !.page = IF Len(q.sg) >= 1 THEN 1 ELSE 0]
\* The range loop goes to the next stargazer.
nextStargazer(q) ==
  [q EXCEPT !.k = @ + 1, !.j = 1, !.page = IF q.k + 1 <= Len(q.sg) THEN 1 ELSE 0]

engineVars == <<cache, pc, url, refresh, resp, cached, next, i, depth, now,
                value, ret, hist, prev>>

\* query.go 262-270: one pass of the loop of QueryStargazers.
StargazersFetch(o) ==
  /\ qa.phase = "QueryStargazers"
  /\ qa.page # 0
  /\ LET r == fetchPage(o, SgPages, qa.page)
         q == called(qa, o, <<"QueryStargazers", "repo">>)
     IN  qa' = IF r.err # "nil"
                 THEN \* return nil, err
                      [failed(q) EXCEPT !.sg = << >>]
               ELSE [q EXCEPT !.sg = @ \o r.items, !.page = r.next]
  /\ UNCHANGED <<engineVars, lk, trav, an>>

\* query.go 262, 273, 225: the loop of QueryStargazers is over; QueryAll
\* calls QueryUserInfo.
StargazersDone ==
  /\ qa.phase = "QueryStargazers"
  /\ qa.page = 0
  /\ qa' = entered(qa, "QueryUserInfo")
  /\ UNCHANGED <<engineVars, lk, trav, an>>

\* query.go 279-282: the user record of one stargazer.
UserInfoFetch(o) ==
  /\ qa.phase = "QueryUserInfo"
  /\ qa.k <= Len(qa.sg)
  /\ LET s == qa.sg[qa.k]
         q == called(qa, o, <<"QueryUserInfo", s>>)
     IN  qa' = IF fetchErr(o) # "nil" THEN failed(q)
               ELSE [nextStargazer(q) EXCEPT
                       !.info = IF o = "ok" THEN @ \cup {s} ELSE @]
  /\ UNCHANGED <<engineVars, lk, trav, an>>

\* query.go 286, 229: QueryUserInfo returns; QueryAll calls QueryFollowers.
UserInfoDone ==
  /\ qa.phase = "QueryUserInfo"
  /\ qa.k > Len(qa.sg)
  /\ qa' = entered(qa, "QueryFollowers")
  /\ UNCHANGED <<engineVars, lk, trav, an>>

\* query.go 297-308: one pass of the page loop of QueryFollowers.
FollowersFetch(o) ==
  /\ qa.phase = "QueryFollowers"
  /\ qa.k <= Len(qa.sg)
  /\ qa.page # 0
  /\ LET s == qa.sg[qa.k]
         r == fetchPage(o, FollowerPages[s], qa.page)
         q == called(qa, o, <<"QueryFollowers", s>>)
     IN  qa' = IF r.err # "nil" THEN failed(q)
               ELSE [q EXCEPT !.followers[s] = @ \o r.items, !.page = r.next]
  /\ UNCHANGED <<engineVars, lk, trav, an>>

\* query.go 294, 297: the page loop of one stargazer is over.
FollowersNext ==
  /\ qa.phase = "QueryFollowers"
  /\ qa.k <= Len(qa.sg)
  /\ qa.page = 0
  /\ qa' = nextStargazer(qa)
  /\ UNCHANGED <<engineVars, lk, trav, an>>

\* query.go 314, 234-237: QueryFollowers returns; QueryAll makes the map
\* of repositories and calls QueryStarred.
FollowersDone ==
  /\ qa.phase = "QueryFollowers"
  /\ qa.k > Len(qa.sg)
  /\ qa' = [entered(qa, "QueryStarred") EXCEPT
               !.rs = {}, !.rsVal = [r \in Repos |-> <<>>]]
  /\ UNCHANGED <<engineVars, lk, trav, an>>

\* The repositories of a page, as a set.
repoSet(items) == {items[m] : m \in 1..Len(items)}

\* Variant: the entry of the map is assigned at every fetch of the name.
putRepos_Mut(m, items, from) ==
  [r \in Repos |-> IF r \in repoSet(items) THEN from ELSE m[r]]
\* query.go 332-335, 363-366: a repository of the page goes into rs under
\* its full name when the name is not a key yet.  The value is taken by the
\* fetch it came from (<< >>: no entry).
putRepos(m, items, from) ==
  [r \in Repos |-> IF r \in repoSet(items) /\ m[r] = <<>> THEN from
                   ELSE m[r]]

\* query.go 326-338: one pass of the page loop of QueryStarred.
StarredFetch(o) ==
  /\ qa.phase = "QueryStarred"
  /\ qa.k <= Len(qa.sg)
  /\ qa.page # 0
  /\ Len(qa.starred[qa.sg[qa.k]]) < maxStarred
  /\ LET s == qa.sg[qa.k]
         r == fetchPage(o, StarredPages[s], qa.page)
         q == called(qa, o, <<"QueryStarred", s>>)
     IN  qa' = IF r.err # "nil" THEN failed(q)
               ELSE [q EXCEPT !.starred[s] = @ \o r.items,
                              !.rs = @ \cup repoSet(r.items),
                              !.rsVal = putRepos(@, r.items,
                                                 <<"QueryStarred", s>>),
                              !.page = r.next]
  /\ UNCHANGED <<engineVars, lk, trav, an>>

\* query.go 322, 326: the page loop of one stargazer is over.
StarredNext ==
  /\ qa.phase = "QueryStarred"
  /\ qa.k <= Len(qa.sg)
  /\ (qa.page = 0 \/ Len(qa.starred[qa.sg[qa.k]]) >= maxStarred)
  /\ qa' = nextStargazer(qa)
  /\ UNCHANGED <<engineVars, lk, trav, an>>

\* query.go 345, 241: QueryStarred returns; QueryAll calls QuerySubscribed.
StarredDone ==
  /\ qa.phase = "QueryStarred"
  /\ qa.k > Len(qa.sg)
  /\ qa' = entered(qa, "QuerySubscribed")
  /\ UNCHANGED <<engineVars, lk, trav, an>>

\* query.go 357-369: one pass of the page loop of QuerySubscribed.
SubscribedFetch(o) ==
  /\ qa.phase = "QuerySubscribed"
  /\ qa.k <= Len(qa.sg)
  /\ qa.page # 0
  /\ Len(qa.subscribed[qa.sg[qa.k]]) < maxSubscribed
  /\ LET s == qa.sg[qa.k]
         r == fetchPage(o, SubscribedPages[s], qa.page)
         q == called(qa, o, <<"QuerySubscribed", s>>)
     IN  qa' = IF r.err # "nil" THEN failed(q)
               ELSE [q EXCEPT !.subscribed[s] = @ \o r.items,
                              !.rs = @ \cup repoSet(r.items),
                              !.rsVal = putRepos(@, r.items,
                                                 <<"QuerySubscribed", s>>),
                              !.page = r.next]
  /\ UNCHANGED <<engineVars, lk, trav, an>>

\* query.go 354, 357: the page loop of one stargazer is over.
SubscribedNext ==
  /\ qa.phase = "QuerySubscribed"
  /\ qa.k <= Len(qa.sg)
  /\ (qa.page = 0 \/ Len(qa.subscribed[qa.sg[qa.k]]) >= maxSubscribed)
  /\ qa' = nextStargazer(qa)
  /\ UNCHANGED <<engineVars, lk, trav, an>>

\* query.go 376, 245: QuerySubscribed returns; QueryAll calls
\* QueryContributions.
SubscribedDone ==
  /\ qa.phase = "QuerySubscribed"
  /\ qa.k > Len(qa.sg)
  /\ qa' = [entered(qa, "QueryContributions") EXCEPT !.page = 0]
  /\ UNCHANGED <<engineVars, lk, trav, an>>

\* query.go 384-386: the logins of the stargazers.
authorsOf(sg) == {sg[m] : m \in 1..Len(sg)}

\* query.go 411-417: the stargazer's contribution to the repository, when
\* the statistics have one.
withContribution(q, s, r) ==
  [q EXCEPT !.contribs = IF s \in q.stats[r] THEN @ \cup {<<s, r>>} ELSE @,
            !.j = @ + 1, !.repo = "", !.page = 0]

\* Variant: the statistics are queried at every visit of the repository.
needsStatistics_Mut(done, r) == TRUE
\* query.go 407: r.Statistics == nil.  QueryStatistics makes the map first
\* thing (query.go 429), whatever its fetches give.
needsStatistics(done, r) == r \notin done

\* query.go 395-417: one subscribed repository of one stargazer, up to the
\* call of QueryStatistics when the repository has no statistics yet.
ContributionsStep ==
  /\ qa.phase = "QueryContributions"
  /\ qa.repo = ""
  /\ qa.k <= Len(qa.sg)
  /\ qa.j <= Len(qa.subscribed[qa.sg[qa.k]])
  /\ LET s == qa.sg[qa.k]
         r == qa.subscribed[s][qa.j]
     IN  qa' = IF r \notin qa.rs THEN [qa EXCEPT !.phase = "fatal"]
               ELSE IF r \notin Qualifying THEN [qa EXCEPT !.j = @ + 1]
               ELSE IF needsStatistics(qa.statsDone, r)
                 THEN [qa EXCEPT !.repo = r, !.page = 1,
                                 !.statsDone = @ \cup {r},
                                 !.statsCalls[r] = @ + 1]
               ELSE withContribution(qa, s, r)
  /\ UNCHANGED <<engineVars, lk, trav, an>>

\* query.go 432-442: one pass of the page loop of QueryStatistics.
StatisticsFetch(o) ==
  /\ qa.phase = "QueryContributions"
  /\ qa.repo # ""
  /\ qa.page # 0
  /\ LET r == fetchPage(o, StatsPages[qa.repo], qa.page)
         q == called(qa, o, <<"QueryStatistics", qa.repo>>)
     IN  qa' = IF r.err # "nil" THEN failed(q)
               ELSE [q EXCEPT !.stats[qa.repo] =
                                 @ \cup (repoSet(r.items) \cap authorsOf(qa.sg)),
                              !.page = r.next]
  /\ UNCHANGED <<engineVars, lk, trav, an>>

\* query.go 444, 411-417: QueryStatistics returns nil.
StatisticsDone ==
  /\ qa.phase = "QueryContributions"
  /\ qa.repo # ""
  /\ qa.page = 0
  /\ qa' = withContribution(qa, qa.sg[qa.k], qa.repo)
  /\ UNCHANGED <<engineVars, lk, trav, an>>

\* query.go 394-395: the subscribed repositories of one stargazer are done.
ContributionsNext ==
  /\ qa.phase = "QueryContributions"
  /\ qa.repo = ""
  /\ qa.k <= Len(qa.sg)
  /\ qa.j > Len(qa.subscribed[qa.sg[qa.k]])
  /\ qa' = [qa EXCEPT !.k = @ + 1, !.j = 1]
  /\ UNCHANGED <<engineVars, lk, trav, an>>

\* query.go 424, 249: QueryContributions returns; QueryAll calls SaveState.
ContributionsDone ==
  /\ qa.phase = "QueryContributions"
  /\ qa.k > Len(qa.sg)
  /\ qa' = [qa EXCEPT !.phase = "SaveState", !.visited = Append(@, "SaveState")]
  /\ UNCHANGED <<engineVars, lk, trav, an>>

\* query.go 448-466, 249: SaveState writes the file or fails; QueryAll
\* returns what it returns.
SaveState(ok) ==
  /\ qa.phase = "SaveState"
  /\ qa' = [qa EXCEPT !.phase = "returned", !.saved = ok,
                      !.err = IF ok THEN "nil" ELSE "save"]
  /\ UNCHANGED <<engineVars, lk, trav, an>>

\* Variant: RunFetch returns the error of QueryAll.
runFetchRet_Mut(err) == err
\* part_003 474-478: RunFetch logs the error of QueryAll and returns nil
\* either way.
runFetchRet(err) == "nil"

\* part_003 474-478, main.go 76-78: QueryAll has returned to RunFetch,
\* which returns to runStargazers; runStargazers returns an error of
\* RunFetch and otherwise calls RunAnalyze.
RunFetchReturn ==
  /\ qa.phase = "returned"
  /\ qa.cmd = "RunFetch"
  /\ LET e == runFetchRet(qa.err)
     IN  qa' = [qa EXCEPT !.fetchLogged = qa.err # "nil",
                          !.fetchRet = e,
                          !.cmd = IF e # "nil" THEN "done" ELSE "RunAnalyze",
                          !.result = IF e # "nil" THEN e ELSE @]
  /\ UNCHANGED <<engineVars, lk, trav, an>>

\* part_004 105-125, main.go 79-82: RunAnalyze loads the saved state and
\* runs the reports; it logs a failure of either and returns nil, which is
\* what runStargazers returns.
RunAnalyze(loadOK, runOK) ==
  /\ qa.phase = "returned"
  /\ qa.cmd = "RunAnalyze"
  /\ qa' = [qa EXCEPT !.cmd = "done",
                      !.analysis = IF ~loadOK THEN "loadFailed"
                                   ELSE IF ~runOK THEN "reportsFailed"
                                   ELSE "reports",
                      !.result = "nil"]
  /\ UNCHANGED <<engineVars, lk, trav, an>>

InitAll ==
  /\ cache = [u \in URLs |-> NoResp]
  /\ EngineInit
  /\ lk = NoParse
  /\ trav = NoLoop
  /\ qa = RunStart
  /\ an = NoReport
NextAll ==
  \/ \E o \in Outcomes : StargazersFetch(o)
  \/ StargazersDone
  \/ \E o \in Outcomes : UserInfoFetch(o)
  \/ UserInfoDone
  \/ \E o \in Outcomes : FollowersFetch(o)
  \/ FollowersNext
  \/ FollowersDone
  \/ \E o \in Outcomes : StarredFetch(o)
  \/ StarredNext
  \/ StarredDone
  \/ \E o \in Outcomes : SubscribedFetch(o)
  \/ SubscribedNext
  \/ SubscribedDone
  \/ ContributionsStep
  \/ \E o \in Outcomes : StatisticsFetch(o)
  \/ StatisticsDone
  \/ ContributionsNext
  \/ ContributionsDone
  \/ \E ok \in BOOLEAN : SaveState(ok)
  \/ RunFetchReturn
  \/ \E loadOK \in BOOLEAN, runOK \in BOOLEAN : RunAnalyze(loadOK, runOK)
SpecAll == InitAll /\ [][NextAll]_vars

\* ------------------------------------------- the cap of the repo loops
\* The page loop of QueryStarred or QuerySubscribed for one stargazer, the
\* slice s.Starred (s.Subscribed) taken by its length.  The server has
\* `total` repositories for the stargazer and sends them `size` to a page.
CapFns == {"QueryStarred", "QuerySubscribed"}
\* query.go 326, 357: the limit each loop compares the length with.
capOf(fn) == IF fn = "QueryStarred" THEN maxStarred ELSE maxSubscribed
\* The number of repositories on page p.
pageCount(size, total, p) ==
  IF p * size <= total THEN size
  ELSE IF (p - 1) * size < total THEN total - (p - 1) * size ELSE 0
\* The page after page p (0: the response has no next link).
pageAfter(size, total, p) == IF p * size < total THEN p + 1 ELSE 0

\* query.go 326, 357: for len(url) > 0 && len(s.Starred) < maxStarred
loopGoesOn(page, len, cap) == page # 0 /\ len < cap

\* query.go 322-325, 354-356: the range loop is at a stargazer, url is
\* the stargazer's URL and the slice is empty.
CapStart(fn, size, total) ==
  [phase |-> fn, st |-> "loop", size |-> size, total |-> total, len |-> 0,
   page |-> 1, fetches |-> 0, lenAtFetch |-> 0, err |-> "pending"]

\* query.go 326-338, 357-369: one pass of the page loop: the fetch, then
\* the append of every repository of the page.
CapFetch(o) ==
  /\ qa.phase \in CapFns
  /\ qa.st = "loop"
  /\ loopGoesOn(qa.page, qa.len, capOf(qa.phase))
  /\ LET q == [qa EXCEPT !.fetches = @ + 1, !.lenAtFetch = qa.len]
     IN  qa' = IF fetchErr(o) # "nil"
                 THEN [q EXCEPT !.st = "returned", !.err = fetchErr(o)]
               ELSE IF o = "ok"
                 THEN [q EXCEPT
                         !.len = @ + pageCount(qa.size, qa.total, qa.page),
                         !.page = pageAfter(qa.size, qa.total, qa.page)]
               ELSE [q EXCEPT !.page = 0]
  /\ UNCHANGED <<engineVars, lk, trav, an>>

\* query.go 322, 326, 354, 357: the loop condition fails: the range loop
\* goes to the next stargazer.
CapNext ==
  /\ qa.phase \in CapFns
  /\ qa.st = "loop"
  /\ ~loopGoesOn(qa.page, qa.len, capOf(qa.phase))
  /\ qa' = [qa EXCEPT !.st = "next"]
  /\ UNCHANGED <<engineVars, lk, trav, an>>

InitCap ==
  /\ cache = [u \in URLs |-> NoResp]
  /\ EngineInit
  /\ lk = NoParse
  /\ trav = NoLoop
  /\ \E fn \in CapFns, size \in {30, 40, 100},
        total \in {0, 90, 300, 320, 400} :
        qa = CapStart(fn, size, total)
  /\ an = NoReport
NextCap ==
  \/ \E o \in Outcomes : CapFetch(o)
  \/ CapNext
SpecCap == InitCap /\ [][NextCap]_vars

\* ------------------------------------------------- the correlated repos
\* RunCorrelatedRepos over the lists (s.Starred or s.Subscribed, by
\* listType) of two stargazers.  The repositories are numbered 1..NRepos
\* and a list is a run of them, first..last (empty when first > last).
NRepos == 52
\* part_003 35
nMostCorrelated == 50
RepoLists ==
  {<<1, 0>>, <<1, 2>>, <<1, 51>>, <<1, NRepos>>, <<3, NRepos>>,
   <<NRepos - 1, NRepos>>}
\* part_003 182-191: counts[rName]++ for every name of every list.
countOf(lists, r) ==
  Cardinality({s \in 1..Len(lists) : lists[s][1] <= r /\ r <= lists[s][2]})
\* part_003 193-197, 79-81: one RepoCount for each key of counts (counted),
\* then sort.Sort with Less = count greater: the counts in
\* descending order.  Position j holds the largest v that at least j
\* repositories reach.  The order of the names among equal counts is left
\* open by the sort and by the iteration over the map; only the counts are
\* kept.
sortedCounts(lists) ==
  LET counted == {r \in 1..NRepos : countOf(lists, r) > 0}
  IN  [j \in 1..Cardinality(counted) |->
         CHOOSE v \in 1..Len(lists) :
           /\ Cardinality({r \in counted : countOf(lists, r) >= v}) >= j
           /\ \A w \in (v + 1)..Len(lists) :
                Cardinality({r \in counted : countOf(lists, r) >= w}) < j]

\* part_003 170-198: the file is open, the header written, the counts
\* sorted; the output loop is at its first pass.
CorrelatedStart(lists) ==
  [fn |-> "RunCorrelatedRepos", st |-> "loop", repos |-> sortedCounts(lists),
   i |-> 0, rows |-> << >>, err |-> "pending"]

\* part_003 200-202: the test that ends the output loop, on the 0-based
\* index of the pass.
pastLimit(idx) == idx > nMostCorrelated

\* part_003 199-209: one pass of the output loop: a row for repos[i].
CorrelatedRow(ok) ==
  /\ an.fn = "RunCorrelatedRepos"
  /\ an.st = "loop"
  /\ an.i < Len(an.repos)
  /\ ~pastLimit(an.i)
  /\ an' = IF ok THEN [an EXCEPT !.rows = Append(@, an.repos[an.i + 1]),
                                 !.i = @ + 1]
           ELSE [an EXCEPT !.st = "returned", !.err = "write"]
  /\ UNCHANGED <<engineVars, lk, trav, qa>>

\* part_003 199-202, 210: the range is over or the loop breaks.
CorrelatedDone ==
  /\ an.fn = "RunCorrelatedRepos"
  /\ an.st = "loop"
  /\ (an.i >= Len(an.repos) \/ pastLimit(an.i))
  /\ an' = [an EXCEPT !.st = "flushed"]
  /\ UNCHANGED <<engineVars, lk, trav, qa>>

InitCorrelated ==
  /\ cache = [u \in URLs |-> NoResp]
  /\ EngineInit
  /\ lk = NoParse
  /\ trav = NoLoop
  /\ qa = NoRun
  /\ \E l1 \in RepoLists, l2 \in RepoLists : an = CorrelatedStart(<<l1, l2>>)
NextCorrelated ==
  \/ \E ok \in BOOLEAN : CorrelatedRow(ok)
  \/ CorrelatedDone
SpecCorrelated == InitCorrelated /\ [][NextCorrelated]_vars

\* ------------------------------------------------- the cumulative stars
\* RunCumulativeStars over the StarredAt strings of the stargazers.  The
\* strings are numbered in string order: 0 and 5 are not RFC3339 (the
\* empty string, which sorts first, and a string that sorts last); 1..4
\* parse, and fall on the days DayOf (a string with a zone offset can sort
\* after a string of a later UTC day).
MaxStargazers == 4
TimeStrings == 0..5
parseOK(t) == t \in 1..4
DayOf == <<0, 1, 1, 0>>
\* analyze.go 44-46, 99-100: sort.Sort with Less on StarredAt: position j
\* holds the least string that at least j of the strings do not exceed.
sortedStars(sg) ==
  [j \in 1..Len(sg) |->
     CHOOSE v \in TimeStrings :
       /\ Cardinality({k \in 1..Len(sg) : sg[k] <= v}) >= j
       /\ Cardinality({k \in 1..Len(sg) : sg[k] < v}) < j]

\* analyze.go 86-106: the file is open, the header written, the slice
\* sorted, the three counters zero.
StarsStart(sg) ==
  [fn |-> "RunCumulativeStars", st |-> "loop", slice |-> sortedStars(sg),
   k |-> 1, lastDay |-> 0, total |-> 0, count |-> 0, rows |-> << >>,
   err |-> "pending"]

\* Variant: the stargazer that opens a new day is not counted in it.
countAfter_Mut(sameDay, count) == IF sameDay THEN count + 1 ELSE 0
\* analyze.go 111-122: count after a stargazer of the same day as the one
\* before, or of another day.
countAfter(sameDay, count) == IF sameDay THEN count + 1 ELSE 1

\* analyze.go 114, 128: the row written for the day that ends.
starsRow(a) == [day |-> a.lastDay, new |-> a.count, cum |-> a.total]

\* analyze.go 106-124: one pass of the loop over the sorted stargazers.
\* ok: does w.Write succeed, when the pass writes a row.
StarsStep(ok) ==
  /\ an.fn = "RunCumulativeStars"
  /\ an.st = "loop"
  /\ an.k <= Len(an.slice)
  /\ LET t == an.slice[an.k]
         day == DayOf[t]
     IN  an' =
           IF ~parseOK(t) THEN [an EXCEPT !.st = "returned", !.err = "parse"]
           ELSE IF day # an.lastDay /\ an.count > 0 /\ ~ok
             THEN [an EXCEPT !.st = "returned", !.err = "write"]
           ELSE [an EXCEPT
                   !.rows = IF day # an.lastDay /\ an.count > 0
                              THEN Append(@, starsRow(an)) ELSE @,
                   !.lastDay = day,
                   !.count = countAfter(day = an.lastDay, @),
                   !.total = @ + 1,
                   !.k = @ + 1]
  /\ UNCHANGED <<engineVars, lk, trav, qa>>

\* analyze.go 126-135: after the loop: the row of the last day, the flush.
StarsFlush(ok) ==
  /\ an.fn = "RunCumulativeStars"
  /\ an.st = "loop"
  /\ an.k > Len(an.slice)
  /\ an' = IF an.count > 0 /\ ~ok
             THEN [an EXCEPT !.st = "returned", !.err = "write"]
           ELSE [an EXCEPT !.st = "returned", !.err = "nil",
                           !.rows = IF an.count > 0
                                      THEN Append(@, starsRow(an)) ELSE @]
  /\ UNCHANGED <<engineVars, lk, trav, qa>>

InitStars ==
  /\ cache = [u \in URLs |-> NoResp]
  /\ EngineInit
  /\ lk = NoParse
  /\ trav = NoLoop
  /\ qa = NoRun
  /\ \E sg \in UNION {[1..n -> TimeStrings] : n \in 0..MaxStargazers} :
        an = StarsStart(sg)
NextStars ==
  \/ \E ok \in BOOLEAN : StarsStep(ok)
  \/ \E ok \in BOOLEAN : StarsFlush(ok)
SpecStars == InitStars /\ [][NextStars]_vars

\* ================================================================ claims

\* C1 as stated: one top-level call of fetchURL issues at most 10 network
\* attempts (calls of doFetch).
C1_TopLevelAtMostTen == hist.attempts <= 10

\* C1 amended: each invocation of fetchURL (the top-level call, and each
\* call it makes to itself after a failed body read) issues at most 10
\* network attempts, rate-limited ones included; a top-level call issues at
\* most 10 per invocation, hence at most 10 when no body read fails.
C1_AtMostTenPerInvocation ==
  /\ hist.attemptsInv <= 10
  /\ hist.attempts <= 10 * (hist.cleared + 1)
  /\ (hist.cleared = 0 => hist.attempts <= 10)

\* Ten attempts in one invocation, of mixed outcomes, the last a success,
\* for a request that was found in the cache.
C1_Witness ==
  /\ hist.attemptsInv = 10
  /\ hist.hit
  /\ ~hist.transOnly
  /\ hist.lastKind = "nil"
  /\ resp # NoResp

\* C2: when all 10 attempts of an invocation failed with a rate-limit or a
\* transient error, fetchURL stops (no 11th attempt) and returns an empty
\* next cursor and a nil error, with nothing decoded into the destination.
C2_ExhaustionSoftFails ==
  i = 10 =>
    /\ pc \in {"check", "done"}
    /\ hist.attemptsInv = 10
    /\ resp = NoResp
    /\ value = "none"
    /\ hist.from = "none"
    /\ (pc = "done" => ret = [next |-> << >>, err |-> "nil"])

\* fetchURL has returned after 10 failed attempts, some of them rate
\* limited and the last one transient.
C2_Witness ==
  /\ pc = "done"
  /\ i = 10
  /\ ~hist.transOnly
  /\ hist.lastKind = "other"

\* C3: an attempt that ends in an httpError ends the call at once: no
\* sleep, no further attempt, an empty cursor and a nil error, nothing
\* decoded, whatever is left of the budget.
C3_PermanentStops ==
  hist.lastKind = "http" =>
    /\ pc = "done"
    /\ ret = [next |-> << >>, err |-> "nil"]
    /\ ~hist.slept
    /\ now = IssueMs
    /\ hist.attemptsInv = i + 1
    /\ value = "none"

\* A permanent failure at the fourth attempt, six attempts unused.
C3_Witness == hist.lastKind = "http" /\ i = 3 /\ pc = "done"

\* C4: while every attempt of an invocation fails transiently, the k-th
\* sleep lasts 50, 100, 200, 400, 800, 1000, 1000, ... ms: double the one
\* before, from 50ms, never above 1000ms, and exactly that long.
C4_Expected == <<50, 100, 200, 400, 800, 1000, 1000, 1000, 1000, 1000>>
C4_BackoffSequence ==
  (hist.transOnly /\ i >= 1) =>
    /\ hist.lastBackoff = C4_Expected[i]
    /\ hist.slept
    /\ now = IssueMs + C4_Expected[i]

\* Seven transient failures in a row: the cap was applied twice.
C4_Witness == hist.transOnly /\ i = 7 /\ hist.lastBackoff = 1000

\* C5: after an answer with status 403, X-rateLimit-Remaining 0 and
\* X-rateLimit-Reset T, the sleep returns at T + 1s or later, so that no
\* further attempt is issued before then; when T + 1s is already past the
\* sleep takes no time and the call goes on without an error.
C5_RateLimitWait ==
  (hist.ans.st = 403 /\ hist.ans.rem = "0" /\ hist.ans.reset \in {"0", "1", "3"}) =>
    LET T == Atoi(hist.ans.reset)
    IN  /\ now >= (T + 1) * 1000
        /\ ((T + 1) * 1000 <= IssueMs => now = IssueMs)
        /\ hist.slept
        /\ ret.err \in {"pending", "nil"}
        /\ (pc = "attempt" => i >= 1)

\* A rate limit that resets in the future has been waited for and the next
\* attempt is about to be issued.
C5_Witness ==
  /\ hist.ans.st = 403
  /\ hist.ans.reset = "3"
  /\ hist.lastKind = "rateLimit"
  /\ now = 4000
  /\ pc = "attempt"

\* C6: a success that follows rate-limited or transient attempts returns
\* what a success at the first attempt returns for the same response: the
\* result depends on the response alone, not on the attempts before it
\* (the cursor of its Link header and its body with a nil error, or the
\* unmarshal error of a body that is not valid JSON).
C6_Cursor(l) == IF l = LinkNextLast THEN <<"p2">> ELSE << >>
C6_RetriesInvisible ==
  (pc = "done" /\ hist.lastKind = "nil" /\ resp # NoResp) =>
    IF resp.body \in {"j1", "j2"}
      THEN /\ ret = [next |-> C6_Cursor(resp.link), err |-> "nil"]
           /\ value = resp.body
      ELSE /\ ret = [next |-> << >>, err |-> "unmarshal"]
           /\ value = "none"

\* A success at the fourth attempt, after a rate limit at the third.
C6_Witness ==
  /\ pc = "done"
  /\ hist.lastKind = "nil"
  /\ i = 3
  /\ now = IssueMs
  /\ ret = [next |-> <<"p2">>, err |-> "nil"]
  /\ value = "j2"

\* C7 as stated: when the lookup finds an entry and refresh is false or the
\* entry has a next link, doFetch is never called during that fetch.
C7_CachedNeverFetches ==
  (hist.hit /\ (~refresh \/ hist.hitLink = LinkNextLast)) => hist.attempts = 0

\* C7 amended: ... doFetch is not called during that fetch as long as no
\* read of the cached body has failed; the body decoded is the cached one.
C7_ReadableCachedNeverFetches ==
  (hist.hit /\ (~refresh \/ hist.hitLink = LinkNextLast) /\ hist.cleared = 0) =>
    /\ hist.attempts = 0
    /\ ~hist.refetched
    /\ pc \in {"check", "decode", "done"}
    /\ ((pc = "done" /\ ret.err = "nil") => hist.from = "cache")

\* A cached page with a next link was used under refresh = true.
C7_Witness ==
  /\ pc = "done"
  /\ hist.hit
  /\ refresh
  /\ hist.hitLink = LinkNextLast
  /\ hist.attempts = 0
  /\ hist.from = "cache"
  /\ ret.next = <<"p2">>

\* C8 as stated: for a request in the cache (both lookups succeed), two
\* calls in a row with refresh = false return the same cursor and the same
\* content, the second one without a network call, and the cache entry is
\* unchanged.
C8_Idempotent ==
  (prev.valid /\ pc = "done" /\ ~prev.readErr /\ ~hist.readErr) =>
    /\ ret = prev.ret
    /\ value = prev.value
    /\ hist.attempts = 0
    /\ cache[url] = prev.entry0

\* C8 amended: the same, for a cached entry whose body can be read and
\* when both cache lookups succeed.
C8_IdempotentReadable ==
  (prev.valid /\ pc = "done" /\ prev.entry0.body # "unreadable"
     /\ ~prev.readErr /\ ~hist.readErr) =>
    /\ ret = prev.ret
    /\ value = prev.value
    /\ hist.attempts = 0
    /\ cache[url] = prev.entry0

\* The second call has returned the cached page, as the first one did.
C8_Witness ==
  /\ prev.valid
  /\ pc = "done"
  /\ prev.entry0 = Response(LinkNextLast, "j1")
  /\ prev.ret = [next |-> <<"p2">>, err |-> "nil"]
  /\ ret = prev.ret
  /\ value = "j1"

\* C9: when the lookup finds an entry without a next link and refresh is
\* true, the entry is dropped and fetched again: by the time fetchURL
\* decodes or returns, doFetch was called and the body taken from the
\* cache is not what is decoded.
C9_LastPageRefetched ==
  (hist.hit /\ refresh /\ hist.hitLink \in {NoLink, LinkFirstPrev}
     /\ pc \in {"decode", "done"}) =>
    /\ hist.attempts >= 1
    /\ hist.refetched
    /\ (pc = "decode" => ~cached)
    /\ hist.from # "cache"

\* A cached last page was fetched again and the new body decoded.
C9_Witness ==
  /\ pc = "done"
  /\ hist.hit
  /\ refresh
  /\ hist.hitLink = LinkFirstPrev
  /\ hist.cleared = 0
  /\ hist.from = "net"
  /\ value = "j2"

\* C10: a body that cannot be read or is not valid JSON for the destination
\* makes fetchURL clear the entry and start over; so the unmarshal error is
\* never returned before an entry was cleared.  fetch.go 157-159 returns the
\* error of json.Unmarshal at its first occurrence, the entry left in the
\* cache and nothing retried; only a failed read (149-156) clears.
C10_DecodeFailureClears == ret.err = "unmarshal" => hist.cleared >= 1

\* C11 (as stated): within one top-level fetch the invalidate-and-retry cycle
\* happens at most once: the recursion never goes deeper than 1 and the
\* entry is cleared at most once.  The code recurses after every failed read
\* of a body, without a limit (fetch.go 147-156).
C11_RecursionAtMostOnce == depth <= 1 /\ hist.cleared <= 1

\* C12 (as stated): when the status is 200 and putCache fails, the response
\* is still handed back and its body decoded, only without being cached.
\* In the code the failed putCache makes doFetch return (nil, nil), so
\* fetchURL has no response and gives up with ("", nil), leaving the
\* caller's value alone (fetch.go 172-177, 198-199, 102-104, 125-128).
C12_PutFailureStillDecodes ==
  hist.putFailed =>
    /\ resp # NoResp
    /\ pc = "done" => (hist.from = "net" /\ value = resp.body)

\* C13 (as stated): whenever getCache or putCache fails, fetchURL returns a
\* non-nil error.  That holds for getCache (fetch.go 87-90); a failed putCache
\* ends the call with ("", nil).
C13_CacheErrorIsHard ==
  (pc = "done" /\ (hist.readErr \/ hist.putFailed)) => ret.err # "nil"

\* C14 (as stated): every 403 whose X-rateLimit-Remaining is present and 0
\* is a rate limit, never a permanent error.
C14_ZeroRemainingNeverPermanent ==
  (hist.ans.st = 403 /\ hist.ans.rem = "0") => hist.lastKind = "rateLimit"

\* C14 (amended): a 403 whose X-rateLimit-Remaining is present and 0 is a
\* rate limit carrying the time of X-rateLimit-Reset when that header is
\* present and a number; when it is missing or not a number, the 403 is a
\* permanent error.
C14_ZeroRemainingWithReset ==
  (hist.ans.st = 403 /\ hist.ans.rem = "0") =>
    /\ hist.ans.reset = "0" => (hist.lastKind = "rateLimit" /\ hist.resetUnix = 0)
    /\ hist.ans.reset = "1" => (hist.lastKind = "rateLimit" /\ hist.resetUnix = 1)
    /\ hist.ans.reset = "3" => (hist.lastKind = "rateLimit" /\ hist.resetUnix = 3)
    /\ hist.ans.reset \in {"", "x"} => (hist.lastKind = "http" /\ hist.errSt = 403)

\* A 403 with no quota left and a reset time of 3 was taken as a rate limit.
C14_Witness ==
  /\ hist.ans = [st |-> 403, rem |-> "0", reset |-> "3"]
  /\ hist.lastKind = "rateLimit"
  /\ hist.resetUnix = 3
  /\ hist.slept

\* C15: a 202 and a failed transport (no response at all) both give an error
\* that is neither a rateLimitError nor an httpError: fetchURL sleeps the
\* backoff and, while attempts are left, tries again; it does not return
\* at that attempt.
C15_TransientRetried ==
  (hist.lastKind # "none" /\ hist.ans.st \in {0, 202}) =>
    /\ hist.lastKind = "other"
    /\ hist.errSt = 0
    /\ hist.slept
    /\ i >= 1
    /\ i < 10 => pc = "attempt"
    /\ pc # "attempt" => i = 10

\* A 202 was answered at the second attempt and a third one is due.
C15_Witness ==
  /\ hist.ans.st = 202
  /\ hist.lastKind = "other"
  /\ pc = "attempt"
  /\ i = 2
  /\ now = IssueMs + 100

\* C16: a response whose status is not 2xx and that is not a 403 with an
\* X-rateLimit-Remaining of 0 gives an httpError carrying that response;
\* among them the 403 without the header or with quota left.
C16_OtherStatusPermanent ==
  (/\ hist.lastKind # "none"
   /\ hist.ans.st # 0
   /\ hist.ans.st \notin 200..299
   /\ ~(hist.ans.st = 403 /\ hist.ans.rem = "0")) =>
    /\ hist.lastKind = "http"
    /\ hist.errSt = hist.ans.st
    /\ hist.resetUnix = 0

\* A 403 with quota left was taken as a permanent error.
C16_Witness ==
  /\ hist.ans = [st |-> 403, rem |-> "5", reset |-> "3"]
  /\ hist.lastKind = "http"
  /\ hist.errSt = 403
  /\ pc = "done"

\* C17: doFetch hands a response back only after putCache stored it: a
\* response that came from the network is in the cache under its URL from
\* the moment fetchURL holds it, and still is when fetchURL returns after
\* decoding it.
C17_CachedBeforeReturned ==
  /\ (pc \in {"check", "decode"} /\ ~cached /\ resp # NoResp) =>
       (cache[url] = resp /\ ~hist.putFailed /\ hist.wrote)
  /\ (pc = "done" /\ hist.from = "net") =>
       (cache[url] # NoResp /\ cache[url] = resp /\ value = resp.body)

\* A response fetched over an empty entry was decoded, and the cache has it.
C17_Witness ==
  /\ pc = "done"
  /\ hist.from = "net"
  /\ ~hist.hit
  /\ hist.attempts >= 1
  /\ cache[url] = resp
  /\ resp.body \in GoodBodies

\* C18: the parse of a header `<URL1>; rel="next", <URL2>; rel="last"`
\* gives URL1; the parse of no header or an empty one, of a header that
\* does not start with `<`, and of a header in which no `>; rel="next", <`
\* is followed by a `>; rel="last"`, gives the empty cursor.
C18_CursorExtraction ==
  lk.parsed =>
    /\ (/\ Len(lk.h) = 5
        /\ lk.h[1] = "LT" /\ lk.h[2] \in LinkURLs /\ lk.h[3] = "NEXT"
        /\ lk.h[4] \in LinkURLs /\ lk.h[5] = "LAST") => lk.next = <<lk.h[2]>>
    /\ Len(lk.h) = 0 => lk.next = << >>
    /\ (Len(lk.h) > 0 /\ lk.h[1] # "LT") => lk.next = << >>
    /\ (~\E k \in 1..Len(lk.h), j \in 1..Len(lk.h) :
           k < j /\ lk.h[k] = "NEXT" /\ lk.h[j] = "LAST") => lk.next = << >>

\* The header of the spec's example was parsed and gave its first URL.
C18_Witness ==
  /\ lk.parsed
  /\ lk.h = <<"LT", "p2", "NEXT", "p5", "LAST">>
  /\ lk.next = <<"p2">>

\* The items of the first k pages of the collection, in page order: what
\* one unpaged response of k pages' worth would decode to.
RECURSIVE AllItems(_)
AllItems(k) ==
  IF k = 0 THEN << >> ELSE AllItems(k - 1) \o Decoded[PageBody[Pages[k]]]
ItemSet(k) == {AllItems(k)[m] : m \in 1..Len(AllItems(k))}

\* C19 (as stated): when every page of the collection was fetched, each of
\* the three loops holds exactly the items of all pages: QueryStargazers and
\* QueryFollowers as the concatenation in page order, QueryStatistics as
\* the entries of its map.
C19_AllLoopsKeepEveryItem ==
  (trav.st = "returned" /\ trav.err = "nil" /\ trav.soft = 0) =>
    /\ trav.fn # "QueryStatistics" => trav.acc = AllItems(trav.n)
    /\ trav.fn = "QueryStatistics" => trav.stats = ItemSet(trav.n)

\* C19 (amended): the page loop visits the pages in chain order, each once.
\* QueryStargazers and QueryFollowers hold at every moment the concatenation
\* of the pages decoded so far and, when every page was fetched, exactly the
\* collection as one unpaged response would give it.  QueryStatistics keeps,
\* of the same items, only the contributors whose login is among the authors.
C19_PaginationComplete ==
  /\ (trav.st # "idle" /\ trav.err \in {"pending", "nil"}) =>
       /\ trav.okPages <= trav.n
       /\ trav.fn # "QueryStatistics" => trav.acc = AllItems(trav.okPages)
       /\ trav.fn = "QueryStatistics" =>
            trav.stats = ItemSet(trav.okPages) \cap {"a", "c", "d"}
  /\ (trav.st = "returned" /\ trav.err = "nil" /\ trav.soft = 0) =>
       /\ trav.okPages = trav.n
       /\ (trav.fn # "QueryStatistics" /\ trav.n = 3) =>
            trav.acc = <<"a", "b", "c", "d", "e">>
       /\ (trav.fn = "QueryStatistics" /\ trav.n = 3) =>
            trav.stats = {"a", "c", "d"}

\* QueryStargazers went through three pages, the first two from the cache
\* and the last one, cached too, fetched again; it returned all five items.
C19_Witness ==
  /\ trav.fn = "QueryStargazers"
  /\ trav.n = 3
  /\ trav.st = "returned"
  /\ trav.err = "nil"
  /\ trav.soft = 0
  /\ trav.acc = <<"a", "b", "c", "d", "e">>
  /\ hist.refetched
  /\ hist.attempts >= 2

\* C20: a fetch that gave up (permanent failure or no attempts left) never
\* ends the run: QueryAll returns an error of a fetch only when some
\* fetchURL returned an error; otherwise every function of QueryAll is
\* called, in order, down to SaveState, every stargazer that was listed has
\* its user record and its three collections asked for, and the result is
\* that of SaveState.
C20_SoftFailureDoesNotAbort ==
  /\ qa.err = "fetch" => qa.hard
  /\ (qa.phase = "returned" /\ ~qa.hard) =>
       /\ qa.visited = <<"QueryStargazers", "QueryUserInfo", "QueryFollowers",
                         "QueryStarred", "QuerySubscribed",
                         "QueryContributions", "SaveState">>
       /\ qa.err \in {"nil", "save"}
       /\ qa.err = "nil" <=> qa.saved
       /\ \A m \in 1..Len(qa.sg) :
            \A ph \in {"QueryUserInfo", "QueryFollowers", "QueryStarred",
                       "QuerySubscribed"} : <<ph, qa.sg[m]>> \in qa.asked
  /\ (qa.phase \notin {"none", "returned"} /\ qa.soft > 0) => qa.err = "pending"

\* The user record of the first stargazer could not be fetched, nor the
\* first page of the second one's followers; the run went on through every
\* later fetch and saved its state.
C20_Witness ==
  /\ qa.phase = "returned"
  /\ qa.err = "nil"
  /\ qa.saved
  /\ qa.soft = 2
  /\ qa.sg = <<"s1", "s2">>
  /\ qa.info = {"s2"}
  /\ qa.followers = [s1 |-> <<"f1", "f2">>, s2 |-> << >>]
  /\ qa.calls = 12

\* C21: a step of fetchURL changes the cache in two ways only: the attempt
\* that got a 200 stores the response it hands back under the URL, and the
\* failed read of a body removes the entry of the URL.  Every other step
\* (lookup, failed or rate-limited attempt, permanent failure, giving up,
\* use of a cached entry, unmarshal) leaves the cache as it was.  The one
\* other change of the cache is not a step of fetchURL: the clear command,
\* run while no fetchURL is running, which only removes entries.
C21_CacheFrame ==
  [][cache' # cache =>
       \/ /\ pc \in {"idle", "done"}
          /\ pc' = "idle"
          /\ \A u \in URLs : cache'[u] \in {cache[u], NoResp}
       \/ /\ pc = "attempt"
          /\ hist'.ans.st = 200
          /\ resp' # NoResp
          /\ cache' = [cache EXCEPT ![url] = resp']
       \/ /\ pc = "decode"
          /\ resp.body = "unreadable"
          /\ cache' = [cache EXCEPT ![url] = NoResp]]_vars

\* Both effects in one call: a response was stored, its body could not be
\* read and the entry was removed again.
C21_Witness ==
  /\ hist.wrote
  /\ hist.cleared = 1
  /\ ~hist.hit
  /\ pc = "getCache"
  /\ cache[url] = NoResp

\* C22: the Accept override lives on QueryStargazers' own copy of the
\* Context: the caller's Context never has it, the fetches of
\* QueryStargazers are sent with it and every other fetch of QueryAll is
\* sent without an Accept header.
C22_AcceptOnCopyOnly ==
  qa.phase # "none" =>
    /\ qa.ctx = [acceptHeader |-> ""]
    /\ \A e \in qa.sent :
         /\ e.fn = "QueryStargazers" =>
              e.accept = "application/vnd.github.v3.star+json"
         /\ e.fn # "QueryStargazers" => e.accept = ""

\* A whole run: the listing was fetched with the override, the five other
\* kinds of fetch without, and the Context is as it was.
C22_Witness ==
  /\ qa.phase = "returned"
  /\ qa.ctx.acceptHeader = ""
  /\ {e.fn : e \in qa.sent} =
       {"QueryStargazers", "QueryUserInfo", "QueryFollowers", "QueryStarred",
        "QuerySubscribed", "QueryStatistics"}
  /\ \E e \in qa.sent : e.fn = "QueryStargazers" /\ e.accept # ""
  /\ \E e \in qa.sent : e.fn = "QueryStatistics" /\ e.accept = ""

\* C23: fetchURL is called with refresh = true by QueryStargazers only; all
\* other callers pass false, and with false the re-fetch of a cached page
\* (the branch after the break condition of fetchURL) is never taken,
\* whatever the page's cursor.
C23_RefreshOnlyForStargazers ==
  \A e \in (IF qa.phase = "none" THEN {} ELSE qa.sent) :
    /\ e.refresh <=> e.fn = "QueryStargazers"
    /\ e.fn # "QueryStargazers" =>
         \A n \in {<< >>, <<"p2">>}, isCached \in BOOLEAN :
           ~mustRefetch(n, isCached, e.refresh)
    /\ e.fn = "QueryStargazers" => mustRefetch(<< >>, TRUE, e.refresh)

\* A run that got as far as the contributor statistics: its stargazers
\* fetch asked for the refresh, its five other kinds of fetch did not.
C23_Witness ==
  /\ qa.phase = "QueryContributions"
  /\ [fn |-> "QueryStargazers", accept |-> "application/vnd.github.v3.star+json",
      refresh |-> TRUE] \in qa.sent
  /\ \A f \in {"QueryUserInfo", "QueryFollowers", "QueryStarred",
               "QuerySubscribed", "QueryStatistics"} :
        [fn |-> f, accept |-> "", refresh |-> FALSE] \in qa.sent

\* C24: the page loop and fetchURL never run at the same time: while the
\* loop is at its head or has ended, no fetchURL is in progress; while one
\* is, it is the one for the loop's URL; and a top-level fetchURL starts
\* only when none is in progress.  An attempt with its sleep is one step of
\* the one running fetchURL, so no two requests are in flight.
C24_Serialized ==
  /\ [](trav.st \in {"loop", "returned"} => pc \in {"idle", "done"})
  /\ []((trav.st = "call" /\ pc # "done") => url = trav.url)
  /\ [][(pc' = "getCache" /\ depth' = 0) => pc \in {"idle", "done"}]_vars

\* The fetch of the second page is between two attempts, after a sleep,
\* and the loop waits for it with the first page taken in.
C24_Witness ==
  /\ trav.st = "call"
  /\ trav.okPages = 1
  /\ url = "p2"
  /\ pc = "attempt"
  /\ i = 3
  /\ hist.slept

\* C25: the functions QueryAll has called so far are always the first ones
\* of stargazers, user info, followers, starred, subscribed, contributions,
\* save state, in that order, the running one being the latest; a function
\* is running only while no error has come up; and the first error of a
\* fetchURL ends QueryAll with that error at that very call: no fetch
\* follows it and SaveState is not called.
C25_PhaseOrder ==
  qa.phase # "none" =>
    LET order == <<"QueryStargazers", "QueryUserInfo", "QueryFollowers",
                   "QueryStarred", "QuerySubscribed", "QueryContributions",
                   "SaveState">>
    IN  /\ Len(qa.visited) \in 1..7
        /\ qa.visited = SubSeq(order, 1, Len(qa.visited))
        /\ qa.phase \notin {"returned", "fatal"} =>
             /\ qa.phase = qa.visited[Len(qa.visited)]
             /\ qa.err = "pending"
             /\ ~qa.hard
        /\ qa.hard =>
             /\ qa.phase = "returned"
             /\ qa.err = "fetch"
             /\ qa.calls = qa.hardAt
             /\ ~qa.saved
             /\ qa.visited[Len(qa.visited)] # "SaveState"
        /\ (qa.phase = "returned" /\ ~qa.hard) => Len(qa.visited) = 7

\* A followers fetch returned an error: QueryAll returned it at that call,
\* the fourth, with three functions called and nothing saved.
C25_Witness ==
  /\ qa.phase = "returned"
  /\ qa.hard
  /\ qa.err = "fetch"
  /\ qa.visited = <<"QueryStargazers", "QueryUserInfo", "QueryFollowers">>
  /\ qa.calls = 4
  /\ qa.hardAt = 4
  /\ ~qa.saved

\* C26: whenever the latest attempt of fetchURL ended in a sleep (after a
\* rate-limit error or after any other retryable error), fetchURL is at the
\* head of its retry loop with another attempt for the same URL to come; it
\* is never past the loop or returned right after a sleep.
C26_SleepThenRetry == hist.slept => (pc = "attempt" /\ i < MaxAttempts)

\* C27: the backoff slept after an attempt that failed with a retryable
\* error other than a rate limit is min(50ms * 2^i, 1000ms), i being the
\* number of attempts the invocation made before it, rate-limited ones
\* included: 50, 100, 200, 400, 800, then 1000 ms.
C27_BackoffByIndex ==
  hist.lastKind = "other" =>
    /\ hist.attemptsInv \in 1..10
    /\ hist.lastBackoff =
         <<50, 100, 200, 400, 800, 1000, 1000, 1000, 1000, 1000>>[hist.attemptsInv]
    /\ hist.lastBackoff \in {50, 100, 200, 400, 800, 1000}

\* The first attempt was rate limited and the second failed with a transport
\* error: the backoff is 100 ms, not 50 ms.
C27_Witness ==
  /\ hist.lastKind = "other"
  /\ ~hist.transOnly
  /\ hist.attemptsInv = 2
  /\ hist.lastBackoff = 100
  /\ hist.slept

\* C28: when getCache fails, fetchURL returns at that step a non-nil error
\* whose message names getCache and the URL, with an empty cursor; the
\* invocation has made no call of doFetch, the destination is as it was and
\* the cache is as it was.
C28_GetCacheFailure ==
  [][(pc = "getCache" /\ hist'.readErr) =>
       /\ pc' = "done"
       /\ ret'.err = "getCache"
       /\ ret'.err # "nil"
       /\ ret'.next = << >>
       /\ hist'.errMsg = [op |-> "getCache", url |-> url]
       /\ hist'.errMsg.url \in URLs
       /\ hist'.attemptsInv = 0
       /\ hist'.attempts = hist.attempts
       /\ resp' = NoResp
       /\ value' = value
       /\ cache' = cache]_vars

\* The lookup of the top-level call failed: the error names getCache and
\* u1, nothing was attempted or decoded.
C28_Witness ==
  /\ pc = "done"
  /\ depth = 0
  /\ hist.readErr
  /\ ret = [next |-> << >>, err |-> "getCache"]
  /\ hist.errMsg = [op |-> "getCache", url |-> "u1"]
  /\ hist.attempts = 0
  /\ value = "none"

\* C29: when fetchURL has dropped a cached page without a next link to
\* fetch it again (refresh set) and the fetch ended in an httpError or ran
\* out of attempts, fetchURL returns an empty cursor and a nil error, the
\* destination is left as it was although the cached body could have been
\* decoded, and the cache entry is still the one the lookup found: no
\* attempt of that fetch and no later step of the call changes the cache.
C29_FailedRevalidation ==
  /\ [](( /\ pc = "done"
          /\ depth = 0
          /\ hist.refetched
          /\ hist.lastKind \in {"http", "rateLimit", "other"} ) =>
        /\ hist.hit /\ refresh
        /\ hist.lastKind = "http" \/ hist.attemptsInv = 10
        /\ ret = [next |-> << >>, err |-> "nil"]
        /\ value = "none"
        /\ hist.from = "none"
        /\ ~hist.wrote
        /\ hist.cleared = 0
        /\ cache[url] # NoResp
        /\ cache[url].link = hist.hitLink )
  /\ [][( /\ hist.refetched
          /\ depth = 0
          /\ pc \in {"attempt", "check"}
          /\ hist'.lastKind \in {"http", "rateLimit", "other"} ) =>
        cache' = cache]_vars

\* A cached last page was fetched again with refresh set, all ten attempts
\* failed, and the call returned ("", nil) with the entry still cached.
C29_Witness ==
  /\ pc = "done"
  /\ depth = 0
  /\ refresh
  /\ hist.refetched
  /\ hist.hitLink = LinkFirstPrev
  /\ hist.lastKind = "other"
  /\ hist.attemptsInv = 10
  /\ ret = [next |-> << >>, err |-> "nil"]
  /\ value = "none"
  /\ cache[url] # NoResp

\* C30: when fetchURL gave up on a page (empty cursor, nil error, nothing
\* decoded), the page loop is over: the function is leaving the loop or has
\* returned with a nil error, no fetch follows (the page given up on is the
\* last URL handed to fetchURL), and what the function holds is what the
\* pages before it gave, which is what a complete traversal of a collection
\* of that many pages returns.
C30_SoftFailureEndsLoop ==
  (trav.st # "idle" /\ trav.soft >= 1) =>
    /\ trav.soft = 1
    /\ trav.st \in {"loop", "returned"}
    /\ trav.url = ""
    /\ trav.err = (IF trav.st = "returned" THEN "nil" ELSE "pending")
    /\ trav.okPages < trav.n
    /\ url = Pages[trav.okPages + 1]
    /\ pc = "done" /\ ret = [next |-> << >>, err |-> "nil"] /\ value = "none"
    /\ trav.fn # "QueryStatistics" =>
         trav.acc = AllItems(trav.okPages)
    /\ trav.fn = "QueryStatistics" =>
         trav.stats = ItemSet(trav.okPages) \cap Authors

\* QueryFollowers took in the first of three pages, the second was
\* answered 404: it returned the items of the first page and a nil error.
C30_Witness ==
  /\ trav.fn = "QueryFollowers"
  /\ trav.n = 3
  /\ trav.st = "returned"
  /\ trav.err = "nil"
  /\ trav.soft = 1
  /\ trav.okPages = 1
  /\ trav.acc = <<"a", "b">>
  /\ url = "p2"
  /\ hist.lastKind = "http"

\* C31: an answer whose status is 2xx but neither 200 nor 202 (201, 204)
\* gives an httpError carrying that status: the attempt writes nothing to
\* the cache and is the last one of the call, which returns at once, without
\* a sleep, an empty cursor and a nil error with nothing decoded.
C31_Other2xxPermanent ==
  /\ []((/\ hist.lastKind # "none"
         /\ hist.ans.st \in 200..299
         /\ hist.ans.st \notin {200, 202}) =>
        /\ hist.lastKind = "http"
        /\ hist.errSt = hist.ans.st
        /\ resp = NoResp
        /\ pc = "done"
        /\ ret = [next |-> << >>, err |-> "nil"]
        /\ ~hist.slept
        /\ now = IssueMs
        /\ value = "none"
        /\ hist.from = "none")
  /\ [][(/\ pc = "attempt"
         /\ hist'.attemptsInv = hist.attemptsInv + 1
         /\ hist'.ans.st \in 200..299
         /\ hist'.ans.st \notin {200, 202}) =>
        (cache' = cache /\ pc' = "done" /\ i' = i)]_vars

\* The first attempt for a request that is not cached was answered 204: the
\* call is over after one attempt and the cache still has no entry.
C31_Witness ==
  /\ pc = "done"
  /\ hist.ans.st = 204
  /\ hist.lastKind = "http"
  /\ hist.errSt = 204
  /\ hist.attempts = 1
  /\ ~hist.hit
  /\ cache[url] = NoResp
  /\ ret = [next |-> << >>, err |-> "nil"]

\* C32: a non-empty cursor given by the parse is one URL, the one of the
\* header's entry tagged rel="next" (the piece right before a
\* `>; rel="next", <`, opened by a `<`), and never a string that runs over
\* several entries; for `<p1>; rel="prev", <p3>; rel="next", <p5>;
\* rel="last"` it is p3.
C32_CursorIsNextURL ==
  (lk.parsed /\ Len(lk.next) > 0) =>
    /\ Len(lk.next) = 1
    /\ lk.next[1] \notin {"LT", "NEXT", "LAST", "PREV", "FIRST", "SEP"}
    /\ \E k \in 2..(Len(lk.h) - 1) :
         /\ lk.h[k] = lk.next[1]
         /\ lk.h[k + 1] = "NEXT"
         /\ lk.h[k - 1] \in {"LT", "PREV", "SEP"}
    /\ lk.h = <<"LT", "p1", "PREV", "p3", "NEXT", "p5", "LAST">> =>
         lk.next = <<"p3">>

\* C33: in the page loop of QueryStarred and of QuerySubscribed for one
\* stargazer, the slice never holds more than 300 repositories, and no page
\* is fetched when it already holds 300 or more.
C33_AtMostMaxRecorded ==
  qa.phase \in {"QueryStarred", "QuerySubscribed"} =>
    /\ qa.len <= 300
    /\ qa.fetches >= 1 => qa.lenAtFetch < 300

\* C34: in a run of QueryAll, QueryStatistics is called at most once for
\* each repository and only for repositories that meet a threshold (r1);
\* a repository whose statistics came out empty because the fetch gave up
\* is not queried again when another stargazer subscribes to it.
C34_StatisticsOncePerRepo ==
  qa.phase # "none" =>
    /\ \A r \in {"r1", "r2"} :
         /\ qa.statsCalls[r] <= 1
         /\ qa.statsCalls[r] >= 1 => r = "r1"
         /\ <<"QueryStatistics", r>> \in qa.asked => r = "r1"
         /\ qa.statsCalls[r] = (IF r \in qa.statsDone THEN 1 ELSE 0)
    /\ qa.repo # "" => qa.repo = "r1"

\* Both stargazers subscribe to r1; the one fetch of its statistics gave
\* up and left them empty; the run went through both stargazers to the end
\* with one call of QueryStatistics.
C34_Witness ==
  /\ qa.phase = "returned"
  /\ qa.saved
  /\ qa.subscribed["s1"] = <<"r1">>
  /\ qa.subscribed["s2"] = <<"r1", "r2">>
  /\ qa.soft = 1
  /\ qa.statsCalls["r1"] = 1
  /\ qa.stats["r1"] = {}
  /\ qa.contribs = {}

\* C35: every repository name in a stargazer's Starred or Subscribed list
\* is a key of rs; the entry of a key is the one of the fetch that first
\* brought the name and no later step replaces it; QueryContributions
\* never finds a subscribed name missing from rs (no fatal exit).
C35_ReposInMap ==
  /\ [](qa.phase # "none" =>
         /\ \A s \in {"s1", "s2"} :
              /\ \A m \in 1..Len(qa.starred[s]) : qa.starred[s][m] \in qa.rs
              /\ \A m \in 1..Len(qa.subscribed[s]) :
                   qa.subscribed[s][m] \in qa.rs
         /\ qa.rs = {r \in {"r1", "r2"} : qa.rsVal[r] # <<>>}
         /\ qa.phase # "fatal")
  /\ [][(qa.phase \in {"QueryStarred", "QuerySubscribed", "QueryContributions",
                       "SaveState"}) =>
          \A r \in {"r1", "r2"} :
            qa.rsVal[r] # <<>> => qa'.rsVal[r] = qa.rsVal[r]]_vars

\* r1 was starred by s1 and came again in the subscriptions of s1 and of
\* s2: its entry is still the one of the first fetch, and
\* QueryContributions went through every subscription.
C35_Witness ==
  /\ qa.phase = "SaveState"
  /\ qa.starred["s1"] = <<"r1">>
  /\ qa.subscribed["s1"] = <<"r1">>
  /\ qa.subscribed["s2"] = <<"r1", "r2">>
  /\ qa.rs = {"r1", "r2"}
  /\ qa.rsVal["r1"] = <<"QueryStarred", "s1">>

\* C36: whatever QueryAll returned, RunFetch returns nil (having logged a
\* failure), so runStargazers always calls RunAnalyze and the command
\* returns nil: a command that is over has run RunAnalyze, which either
\* ran the reports on the saved state it loaded or logged a failure.
C36_FetchFailureNotReported ==
  qa.phase # "none" =>
    /\ qa.cmd \in {"RunFetch", "RunAnalyze", "done"}
    /\ qa.cmd # "RunFetch" =>
         /\ qa.phase = "returned"
         /\ qa.fetchRet = "nil"
         /\ qa.fetchLogged <=> qa.err \in {"fetch", "save"}
    /\ qa.cmd = "RunAnalyze" => (qa.analysis = "none" /\ qa.result = "pending")
    /\ qa.cmd = "done" =>
         /\ qa.analysis \in {"loadFailed", "reportsFailed", "reports"}
         /\ qa.result = "nil"

\* A fetch of the followers failed and QueryAll returned its error; the
\* command went on to analyse the saved state of an earlier run and
\* returned nil.
C36_Witness ==
  /\ qa.cmd = "done"
  /\ qa.err = "fetch"
  /\ qa.hard
  /\ ~qa.saved
  /\ qa.fetchLogged
  /\ qa.fetchRet = "nil"
  /\ qa.analysis = "reports"
  /\ qa.result = "nil"

\* C37: the correlated-repos report has at most 50 rows; they are the
\* first of the repositories in descending order of count, so each row's
\* count is at least the next one's and at least the count of every
\* repository left out.
C37_AtMostFiftyRows ==
  an.fn = "RunCorrelatedRepos" =>
    /\ Len(an.rows) <= 50
    /\ an.rows = SubSeq(an.repos, 1, Len(an.rows))
    /\ \A j \in 1..(Len(an.rows) - 1) : an.rows[j] >= an.rows[j + 1]
    /\ \A j \in 1..Len(an.rows), k \in (Len(an.rows) + 1)..Len(an.repos) :
         an.rows[j] >= an.repos[k]
    /\ an.st = "flushed" =>
         Len(an.rows) = (IF Len(an.repos) < 50 THEN Len(an.repos) ELSE 50)

\* The sum of the New values of the first k rows.
RECURSIVE SumNew(_, _)
SumNew(rows, k) == IF k = 0 THEN 0 ELSE SumNew(rows, k - 1) + rows[k].new

\* C38: in the cumulative-stars report, when every timestamp parses: each
\* row's Cumulative is the sum of the New values of the rows up to it; the
\* New values sum to the number of stargazers, which is the Cumulative of
\* the last row; and for each day the New values of its rows sum to the
\* number of stargazers of that day.  While the loop runs, the rows and the
\* running count together account for the stargazers passed, each once.
C38_CumulativeStars ==
  an.fn = "RunCumulativeStars" =>
    /\ \A j \in 1..Len(an.rows) :
         /\ an.rows[j].new >= 1
         /\ an.rows[j].cum = SumNew(an.rows, j)
    /\ an.st = "loop" =>
         /\ an.total = an.k - 1
         /\ SumNew(an.rows, Len(an.rows)) + an.count = an.k - 1
    /\ (an.st = "returned" /\ an.err = "nil") =>
         /\ SumNew(an.rows, Len(an.rows)) = Len(an.slice)
         /\ Len(an.slice) > 0 =>
              (an.rows # << >> /\ an.rows[Len(an.rows)].cum = Len(an.slice))
         /\ \A d \in {0, 1} :
              LET of == {j \in 1..Len(an.rows) : an.rows[j].day = d}
                  RECURSIVE DaySum(_)
                  DaySum(k) ==
                    IF k = 0 THEN 0
                    ELSE DaySum(k - 1) + (IF k \in of THEN an.rows[k].new ELSE 0)
              IN  DaySum(Len(an.rows)) =
                    Cardinality({k \in 1..Len(an.slice) :
                                   <<0, 1, 1, 0>>[an.slice[k]] = d})

\* Four stargazers over days 0, 1, 1, 0 in string order: three rows with
\* New 1, 2, 1 and Cumulative 1, 3, 4.
C38_Witness ==
  /\ an.fn = "RunCumulativeStars"
  /\ an.st = "returned"
  /\ an.err = "nil"
  /\ an.slice = <<1, 2, 3, 4>>
  /\ an.rows = <<[day |-> 0, new |-> 1, cum |-> 1],
                 [day |-> 1, new |-> 2, cum |-> 3],
                 [day |-> 0, new |-> 1, cum |-> 4]>>

====
